---- MODULE Spec2Model ----
(***************************************************************************)
(* Model of the Firestore mutation engine                                  *)
(* (packages/firestore/src/model/mutation.ts): Precondition, the four      *)
(* Mutation variants and their applyToLocalView / applyToRemoteDocument.   *)
(*                                                                         *)
(* Optional values (T | undefined, T | null) are sets holding at most one  *)
(* element: {} is undefined/null and {v} is the value v.                   *)
(***************************************************************************)
EXTENDS Integers, Sequences, FiniteSets, TLC

\* ------------------------------------------------------------- bounds
\* Real (server assigned) snapshot versions are 1..MaxVersion.
MaxVersion == 1
\* Longest FieldMask.fields / TransformMutation.fieldTransforms list.
MaxLen == 2

\* ------------------------------------------------------ SnapshotVersion
\* SnapshotVersion.MIN
MIN == 0
\* SnapshotVersion.forDeletedDoc(): the client-only deletion sentinel.
forDeletedDoc == -1

Versions == MIN .. MaxVersion

\* ----------------------------------------------------------- FieldPath
Keys == {"k1", "k2"}
\* Field paths, as their lists of segments: a, b and the nested a.x.
Paths == {<<"a">>, <<"b">>, <<"a", "x">>}

\* ---------------------------------------------------------- FieldValue
\* A FieldValue is a number, an ObjectValue or a ServerTimestampValue.
NumberValue(n) == [kind |-> "number", n |-> n]
\* ObjectValue: a map from field names to FieldValues.
ObjectValue(f) == [kind |-> "object", fields |-> f]
\* new ServerTimestampValue(localWriteTime, previousValue)
ServerTimestampValue(t, prev) ==
    [kind |-> "serverTimestamp", localWriteTime |-> t, previousValue |-> prev]

EmptyMap == [n \in {} |-> NumberValue(0)]
\* ObjectValue.EMPTY
EMPTY == ObjectValue(EmptyMap)

isObject(v) == v.kind = "object"

\* ObjectValue.child(name): the value stored under name, when there is one.
child(obj, name) ==
    IF name \in DOMAIN obj.fields THEN {obj.fields[name]} ELSE {}

\* ObjectValue.setChild(name, value)
setChild(obj, name, value) ==
    ObjectValue([n \in (DOMAIN obj.fields) \cup {name} |->
                    IF n = name THEN value ELSE obj.fields[n]])

\* SortedMap.remove(name) on the object's map.
removeChild(obj, name) ==
    ObjectValue([n \in (DOMAIN obj.fields) \ {name} |-> obj.fields[n]])

\* ObjectValue.field(path): walks the segments; undefined as soon as a
\* segment is missing or the value reached is not an object.
RECURSIVE fieldFrom(_, _)
fieldFrom(v, path) ==
    IF path = <<>> THEN {v}
    ELSE IF isObject(v) /\ Head(path) \in DOMAIN v.fields
         THEN fieldFrom(v.fields[Head(path)], Tail(path))
         ELSE {}

field(obj, path) == fieldFrom(obj, path)

\* ObjectValue.set(path, to): a parent that is missing or is not an object
\* is replaced by an object holding the rest of the path.
RECURSIVE set(_, _, _)
set(obj, path, to) ==
    IF Len(path) = 1 THEN setChild(obj, Head(path), to)
    ELSE LET c == child(obj, Head(path))
             sub == IF c # {} /\ isObject(CHOOSE v \in c : TRUE)
                    THEN CHOOSE v \in c : TRUE
                    ELSE EMPTY
         IN setChild(obj, Head(path), set(sub, Tail(path), to))

\* ObjectValue.delete(path): a nested delete under a parent that is missing
\* or is not an object changes nothing.
RECURSIVE delete(_, _)
delete(obj, path) ==
    IF Len(path) = 1 THEN removeChild(obj, Head(path))
    ELSE LET c == child(obj, Head(path))
         IN IF c # {} /\ isObject(CHOOSE v \in c : TRUE)
            THEN setChild(obj, Head(path),
                          delete(CHOOSE v \in c : TRUE, Tail(path)))
            ELSE obj

\* ------------------------------------------------------- MaybeDocument
Null == [type |-> "null"]
Document(k, v, d, h) ==
    [type |-> "Document", key |-> k, version |-> v, data |-> d,
     hasLocalMutations |-> h]
NoDocument(k, v) == [type |-> "NoDocument", key |-> k, version |-> v]

isDocument(d) == d.type = "Document"
isNoDocument(d) == d.type = "NoDocument"

\* ---------------------------------------------------------- Precondition
\* new Precondition(updateTime?, exists?)
Precondition(updateTime, exists) ==
    IF updateTime = {} \/ exists = {}
    THEN [updateTime |-> updateTime, exists |-> exists]
    ELSE [ok |-> FALSE,
          error |-> "Precondition can specify \"exists\" or \"updateTime\" but not both"]
NONE == Precondition({}, {})
\* Precondition.exists(exists)
exists(e) == Precondition({}, {e})
\* Precondition.updateTime(version)
updateTime(v) == Precondition({v}, {})

isNone(p) == p.updateTime = {} /\ p.exists = {}

\* Faulty variant: an update time is compared with the version of any
\* MaybeDocument, so that it also holds for a NoDocument at that version.
isValidForAnyVersioned(p, maybeDoc) ==
    IF p.updateTime # {}
    THEN maybeDoc # Null /\ maybeDoc.version \in p.updateTime
    ELSE IF p.exists # {}
         THEN IF TRUE \in p.exists
              THEN isDocument(maybeDoc)
              ELSE maybeDoc = Null \/ isNoDocument(maybeDoc)
         ELSE TRUE

\* Precondition.isValidFor(maybeDoc)
isValidFor(p, maybeDoc) ==
    IF p.updateTime # {}
    THEN isDocument(maybeDoc) /\ maybeDoc.version \in p.updateTime
    ELSE IF p.exists # {}
         THEN IF TRUE \in p.exists
              THEN isDocument(maybeDoc)
              ELSE maybeDoc = Null \/ isNoDocument(maybeDoc)
         ELSE TRUE

\* ------------------------------------------------------- MutationResult
\* new MutationResult(version, transformResults); transformResults is null
\* ({}) or the list of values the backend computed ({list}).
MutationResult(version, transformResults) ==
    [version |-> version, transformResults |-> transformResults]

\* ------------------------------------------------------------- Mutation
ServerTimestampTransform == "ServerTimestampTransform"
\* A TransformOperation that is not a ServerTimestampTransform.
UnknownTransform == "UnknownTransform"
FieldTransform(path, transform) == [field |-> path, transform |-> transform]

SetMutation(key, value, precondition) ==
    [type |-> "Set", key |-> key, precondition |-> precondition,
     value |-> value]
PatchMutation(key, data, fieldMask, precondition) ==
    [type |-> "Patch", key |-> key, precondition |-> precondition,
     data |-> data, fieldMask |-> fieldMask]
\* The precondition of a TransformMutation is the field initialiser
\* Precondition.exists(true).
TransformMutation(key, fieldTransforms) ==
    [type |-> "Transform", key |-> key, precondition |-> exists(TRUE),
     fieldTransforms |-> fieldTransforms]
DeleteMutation(key, precondition) ==
    [type |-> "Delete", key |-> key, precondition |-> precondition]

\* What a call does: it returns a MaybeDocument (or null), or an assert/fail
\* throws. checkedPrecondition records whether precondition.isValidFor was
\* evaluated before the call ended.
Returns(doc, checked) ==
    [status |-> "returned", doc |-> doc, checkedPrecondition |-> checked]
Throws(message, checked) ==
    [status |-> "fatal", error |-> message, checkedPrecondition |-> checked]

\* Faulty variant: the key of the document is not verified.
verifyKeyMatchesSkipped(m, maybeDoc) == TRUE

\* Mutation.verifyKeyMatches: TRUE when its assert passes.
verifyKeyMatches(m, maybeDoc) ==
    IF maybeDoc # Null THEN maybeDoc.key = m.key ELSE TRUE

\* Faulty variant: the version of a NoDocument is carried over, too.
getPostMutationVersionOfAny(maybeDoc) ==
    IF maybeDoc # Null THEN maybeDoc.version ELSE MIN

\* Mutation.getPostMutationVersion
getPostMutationVersion(maybeDoc) ==
    IF isDocument(maybeDoc) THEN maybeDoc.version ELSE MIN

\* ---------------------------------------------------------- SetMutation
\* Faulty variant: the remote set re-checks the precondition as the local one does.
SetRemoteRecheckingPrecondition(m, maybeDoc, mutationResult) ==
    IF ~verifyKeyMatches(m, maybeDoc)
    THEN Throws("Can only apply a mutation to a document with the same key",
                FALSE)
    ELSE IF mutationResult.transformResults # {}
    THEN Throws("Transform results received by SetMutation.", FALSE)
    ELSE IF ~isValidFor(m.precondition, maybeDoc)
    THEN Returns(maybeDoc, TRUE)
    ELSE Returns(Document(m.key, getPostMutationVersion(maybeDoc), m.value,
                          FALSE),
                 TRUE)

\* Faulty variant: the remote set writes the Document at the commit version
\* of the MutationResult.
SetRemoteAtCommitVersion(m, maybeDoc, mutationResult) ==
    IF ~verifyKeyMatches(m, maybeDoc)
    THEN Throws("Can only apply a mutation to a document with the same key",
                FALSE)
    ELSE IF mutationResult.transformResults # {}
    THEN Throws("Transform results received by SetMutation.", FALSE)
    ELSE Returns(Document(m.key,
                          IF mutationResult.version # {}
                          THEN CHOOSE v \in mutationResult.version : TRUE
                          ELSE getPostMutationVersion(maybeDoc),
                          m.value, FALSE),
                 FALSE)

SetMutation_applyToRemoteDocument(m, maybeDoc, mutationResult) ==
    IF ~verifyKeyMatches(m, maybeDoc)
    THEN Throws("Can only apply a mutation to a document with the same key",
                FALSE)
    ELSE IF mutationResult.transformResults # {}
    THEN Throws("Transform results received by SetMutation.", FALSE)
    ELSE Returns(Document(m.key, getPostMutationVersion(maybeDoc), m.value,
                          FALSE),
                 FALSE)

\* Faulty variant: the local set merges its value into the prior Document's data
\* instead of replacing it.
SetLocalMerging(m, maybeDoc, baseDoc, localWriteTime) ==
    IF ~verifyKeyMatches(m, maybeDoc)
    THEN Throws("Can only apply a mutation to a document with the same key",
                FALSE)
    ELSE IF ~isValidFor(m.precondition, maybeDoc)
    THEN Returns(maybeDoc, TRUE)
    ELSE LET old == IF isDocument(maybeDoc) THEN maybeDoc.data ELSE EMPTY
             merged ==
                 ObjectValue(
                     [n \in (DOMAIN old.fields) \cup (DOMAIN m.value.fields) |->
                        IF n \in DOMAIN m.value.fields
                        THEN m.value.fields[n] ELSE old.fields[n]])
         IN Returns(Document(m.key, getPostMutationVersion(maybeDoc), merged,
                             TRUE),
                    TRUE)

SetMutation_applyToLocalView(m, maybeDoc, baseDoc, localWriteTime) ==
    IF ~verifyKeyMatches(m, maybeDoc)
    THEN Throws("Can only apply a mutation to a document with the same key",
                FALSE)
    ELSE IF ~isValidFor(m.precondition, maybeDoc)
    THEN Returns(maybeDoc, TRUE)
    ELSE Returns(Document(m.key, getPostMutationVersion(maybeDoc), m.value,
                          TRUE),
                 TRUE)

\* -------------------------------------------------------- PatchMutation
\* PatchMutation.patchObject: the loop over fieldMask.fields, from index i.
RECURSIVE patchObjectFrom(_, _, _)
patchObjectFrom(m, data, i) ==
    IF i > Len(m.fieldMask) THEN data
    ELSE LET fieldPath == m.fieldMask[i]
             newValue == field(m.data, fieldPath)
         IN IF newValue # {}
            THEN patchObjectFrom(
                     m, set(data, fieldPath, CHOOSE v \in newValue : TRUE),
                     i + 1)
            ELSE patchObjectFrom(m, delete(data, fieldPath), i + 1)

\* Faulty variant: a masked field the mutation's data has no value for is kept
\* instead of deleted.
RECURSIVE patchObjectKeepingFrom(_, _, _)
patchObjectKeepingFrom(m, data, i) ==
    IF i > Len(m.fieldMask) THEN data
    ELSE LET fieldPath == m.fieldMask[i]
             newValue == field(m.data, fieldPath)
         IN IF newValue # {}
            THEN patchObjectKeepingFrom(
                     m, set(data, fieldPath, CHOOSE v \in newValue : TRUE),
                     i + 1)
            ELSE patchObjectKeepingFrom(m, data, i + 1)

patchObjectKeeping(m, data) == patchObjectKeepingFrom(m, data, 1)

patchObject(m, data) == patchObjectFrom(m, data, 1)

\* PatchMutation.patchDocument
patchDocument(m, maybeDoc) ==
    IF isDocument(maybeDoc)
    THEN patchObject(m, maybeDoc.data)
    ELSE patchObject(m, EMPTY)

\* Faulty variant: the remote patch no longer enforces the precondition.
PatchRemoteNotCheckingPrecondition(m, maybeDoc, mutationResult) ==
    IF ~verifyKeyMatches(m, maybeDoc)
    THEN Throws("Can only apply a mutation to a document with the same key",
                FALSE)
    ELSE IF mutationResult.transformResults # {}
    THEN Throws("Transform results received by PatchMutation.", FALSE)
    ELSE Returns(Document(m.key, getPostMutationVersion(maybeDoc),
                          patchDocument(m, maybeDoc), FALSE),
                 FALSE)

PatchMutation_applyToRemoteDocument(m, maybeDoc, mutationResult) ==
    IF ~verifyKeyMatches(m, maybeDoc)
    THEN Throws("Can only apply a mutation to a document with the same key",
                FALSE)
    ELSE IF mutationResult.transformResults # {}
    THEN Throws("Transform results received by PatchMutation.", FALSE)
    ELSE IF ~isValidFor(m.precondition, maybeDoc)
    THEN Returns(maybeDoc, TRUE)
    ELSE Returns(Document(m.key, getPostMutationVersion(maybeDoc),
                          patchDocument(m, maybeDoc), FALSE),
                 TRUE)

\* Faulty variant: the local patch does not check its precondition.
PatchLocalNotCheckingPrecondition(m, maybeDoc, baseDoc, localWriteTime) ==
    IF ~verifyKeyMatches(m, maybeDoc)
    THEN Throws("Can only apply a mutation to a document with the same key",
                FALSE)
    ELSE Returns(Document(m.key, getPostMutationVersion(maybeDoc),
                          patchDocument(m, maybeDoc), TRUE),
                 FALSE)

PatchMutation_applyToLocalView(m, maybeDoc, baseDoc, localWriteTime) ==
    IF ~verifyKeyMatches(m, maybeDoc)
    THEN Throws("Can only apply a mutation to a document with the same key",
                FALSE)
    ELSE IF ~isValidFor(m.precondition, maybeDoc)
    THEN Returns(maybeDoc, TRUE)
    ELSE Returns(Document(m.key, getPostMutationVersion(maybeDoc),
                          patchDocument(m, maybeDoc), TRUE),
                 TRUE)

\* ---------------------------------------------------- TransformMutation
\* A helper's result: a value, or the message of the assert/fail that threw.
Value(v) == [ok |-> TRUE, value |-> v]
Failure(message) == [ok |-> FALSE, error |-> message]

\* TransformMutation.requireDocument: the message of the assert that fails,
\* or none.
requireDocument(m, maybeDoc) ==
    IF ~isDocument(maybeDoc) THEN {"Unknown MaybeDocument type"}
    ELSE IF maybeDoc.key # m.key
    THEN {"Can only transform a document with the same key"}
    ELSE {}

\* TransformMutation.localTransformResults: the loop over fieldTransforms,
\* from index i, with the results pushed so far.
RECURSIVE localTransformResultsFrom(_, _, _, _, _)
localTransformResultsFrom(m, localWriteTime, baseDoc, i, transformResults) ==
    IF i > Len(m.fieldTransforms) THEN Value(transformResults)
    ELSE LET fieldTransform == m.fieldTransforms[i]
         IN IF fieldTransform.transform = ServerTimestampTransform
            THEN LET previousValue ==
                         IF isDocument(baseDoc)
                         THEN field(baseDoc.data, fieldTransform.field)
                         ELSE {}
                 IN localTransformResultsFrom(
                        m, localWriteTime, baseDoc, i + 1,
                        Append(transformResults,
                               ServerTimestampValue(localWriteTime,
                                                    previousValue)))
            ELSE Failure("Encountered unknown transform")

\* Faulty variant: the placeholders carry no previous value; baseDoc is not
\* consulted.
localTransformResultsWithoutPrevious(m, localWriteTime, baseDoc) ==
    IF \A i \in DOMAIN m.fieldTransforms :
          m.fieldTransforms[i].transform = ServerTimestampTransform
    THEN Value([i \in DOMAIN m.fieldTransforms |->
                  ServerTimestampValue(localWriteTime, {})])
    ELSE Failure("Encountered unknown transform")

localTransformResults(m, localWriteTime, baseDoc) ==
    localTransformResultsFrom(m, localWriteTime, baseDoc, 1, <<>>)

\* TransformMutation.transformObject: the loop, from index i.
RECURSIVE transformObjectFrom(_, _, _, _)
transformObjectFrom(m, data, transformResults, i) ==
    IF i > Len(m.fieldTransforms) THEN Value(data)
    ELSE LET fieldTransform == m.fieldTransforms[i]
         IN IF fieldTransform.transform = ServerTimestampTransform
            THEN transformObjectFrom(
                     m, set(data, fieldTransform.field, transformResults[i]),
                     transformResults, i + 1)
            ELSE Failure("Encountered unknown transform")

\* Faulty variant: every field is set to the first transform result.
transformObjectFirstResult(m, data, transformResults) ==
    IF Len(transformResults) # Len(m.fieldTransforms)
    THEN Failure("TransformResults length mismatch.")
    ELSE transformObjectFrom(
             m, data,
             [i \in DOMAIN transformResults |-> transformResults[1]], 1)

\* Faulty variant: a transform of an unsupported variant is skipped and the
\* remaining ones are applied.
RECURSIVE transformObjectSkippingFrom(_, _, _, _)
transformObjectSkippingFrom(m, data, transformResults, i) ==
    IF i > Len(m.fieldTransforms) THEN Value(data)
    ELSE LET fieldTransform == m.fieldTransforms[i]
         IN IF fieldTransform.transform = ServerTimestampTransform
            THEN transformObjectSkippingFrom(
                     m, set(data, fieldTransform.field, transformResults[i]),
                     transformResults, i + 1)
            ELSE transformObjectSkippingFrom(m, data, transformResults, i + 1)

transformObjectSkippingUnknown(m, data, transformResults) ==
    IF Len(transformResults) # Len(m.fieldTransforms)
    THEN Failure("TransformResults length mismatch.")
    ELSE transformObjectSkippingFrom(m, data, transformResults, 1)

transformObject(m, data, transformResults) ==
    IF Len(transformResults) # Len(m.fieldTransforms)
    THEN Failure("TransformResults length mismatch.")
    ELSE transformObjectFrom(m, data, transformResults, 1)

\* Faulty variant: the remote transform looks for its transform results only
\* after the precondition check, once it needs them.
TransformRemoteCheckingResultsLate(m, maybeDoc, mutationResult) ==
    IF ~verifyKeyMatches(m, maybeDoc)
    THEN Throws("Can only apply a mutation to a document with the same key",
                FALSE)
    ELSE IF ~isValidFor(m.precondition, maybeDoc)
    THEN Returns(maybeDoc, TRUE)
    ELSE IF mutationResult.transformResults = {}
    THEN Throws("Transform results missing for TransformMutation.", TRUE)
    ELSE IF requireDocument(m, maybeDoc) # {}
    THEN Throws(CHOOSE e \in requireDocument(m, maybeDoc) : TRUE, TRUE)
    ELSE LET transformResults ==
                 CHOOSE r \in mutationResult.transformResults : TRUE
             newData == transformObject(m, maybeDoc.data, transformResults)
         IN IF ~newData.ok THEN Throws(newData.error, TRUE)
            ELSE Returns(Document(m.key, maybeDoc.version, newData.value,
                                  FALSE),
                         TRUE)

TransformMutation_applyToRemoteDocument(m, maybeDoc, mutationResult) ==
    IF ~verifyKeyMatches(m, maybeDoc)
    THEN Throws("Can only apply a mutation to a document with the same key",
                FALSE)
    ELSE IF mutationResult.transformResults = {}
    THEN Throws("Transform results missing for TransformMutation.", FALSE)
    ELSE IF ~isValidFor(m.precondition, maybeDoc)
    THEN Returns(maybeDoc, TRUE)
    ELSE IF requireDocument(m, maybeDoc) # {}
    THEN Throws(CHOOSE e \in requireDocument(m, maybeDoc) : TRUE, TRUE)
    ELSE LET transformResults ==
                 CHOOSE r \in mutationResult.transformResults : TRUE
             newData == transformObject(m, maybeDoc.data, transformResults)
         IN IF ~newData.ok THEN Throws(newData.error, TRUE)
            ELSE Returns(Document(m.key, maybeDoc.version, newData.value,
                                  FALSE),
                         TRUE)

\* Faulty variant: the local transform creates a document from a NoDocument or an
\* absent document, as the backend would.
TransformLocalCreating(m, maybeDoc, baseDoc, localWriteTime) ==
    IF ~verifyKeyMatches(m, maybeDoc)
    THEN Throws("Can only apply a mutation to a document with the same key",
                FALSE)
    ELSE LET transformResults ==
                 localTransformResults(m, localWriteTime, baseDoc)
             data == IF isDocument(maybeDoc) THEN maybeDoc.data ELSE EMPTY
         IN IF ~transformResults.ok THEN Throws(transformResults.error, FALSE)
            ELSE LET newData == transformObject(m, data,
                                                transformResults.value)
                 IN IF ~newData.ok THEN Throws(newData.error, FALSE)
                    ELSE Returns(Document(m.key,
                                          getPostMutationVersion(maybeDoc),
                                          newData.value, TRUE),
                                 FALSE)

\* Faulty variant: the local transform takes the previous values from the document
\* being mutated instead of from baseDoc.
TransformLocalPreviousFromDoc(m, maybeDoc, baseDoc, localWriteTime) ==
    IF ~verifyKeyMatches(m, maybeDoc)
    THEN Throws("Can only apply a mutation to a document with the same key",
                FALSE)
    ELSE IF ~isValidFor(m.precondition, maybeDoc)
    THEN Returns(maybeDoc, TRUE)
    ELSE IF requireDocument(m, maybeDoc) # {}
    THEN Throws(CHOOSE e \in requireDocument(m, maybeDoc) : TRUE, TRUE)
    ELSE LET transformResults ==
                 localTransformResults(m, localWriteTime, maybeDoc)
         IN IF ~transformResults.ok THEN Throws(transformResults.error, TRUE)
            ELSE LET newData == transformObject(m, maybeDoc.data,
                                                transformResults.value)
                 IN IF ~newData.ok THEN Throws(newData.error, TRUE)
                    ELSE Returns(Document(m.key, maybeDoc.version,
                                          newData.value, TRUE),
                                 TRUE)

TransformMutation_applyToLocalView(m, maybeDoc, baseDoc, localWriteTime) ==
    IF ~verifyKeyMatches(m, maybeDoc)
    THEN Throws("Can only apply a mutation to a document with the same key",
                FALSE)
    ELSE IF ~isValidFor(m.precondition, maybeDoc)
    THEN Returns(maybeDoc, TRUE)
    ELSE IF requireDocument(m, maybeDoc) # {}
    THEN Throws(CHOOSE e \in requireDocument(m, maybeDoc) : TRUE, TRUE)
    ELSE LET transformResults ==
                 localTransformResults(m, localWriteTime, baseDoc)
         IN IF ~transformResults.ok THEN Throws(transformResults.error, TRUE)
            ELSE LET newData == transformObject(m, maybeDoc.data,
                                                transformResults.value)
                 IN IF ~newData.ok THEN Throws(newData.error, TRUE)
                    ELSE Returns(Document(m.key, maybeDoc.version,
                                          newData.value, TRUE),
                                 TRUE)

\* ------------------------------------------------------- DeleteMutation
\* Faulty variant: the remote delete re-checks the precondition.
DeleteRemoteRecheckingPrecondition(m, maybeDoc, mutationResult) ==
    IF ~verifyKeyMatches(m, maybeDoc)
    THEN Throws("Can only apply a mutation to a document with the same key",
                FALSE)
    ELSE IF mutationResult.transformResults # {}
    THEN Throws("Transform results received by DeleteMutation.", FALSE)
    ELSE IF ~isValidFor(m.precondition, maybeDoc)
    THEN Returns(maybeDoc, TRUE)
    ELSE Returns(NoDocument(m.key, MIN), TRUE)

\* Faulty variant: the remote delete returns no document at all instead of
\* a NoDocument.
DeleteRemoteReturningNull(m, maybeDoc, mutationResult) ==
    IF ~verifyKeyMatches(m, maybeDoc)
    THEN Throws("Can only apply a mutation to a document with the same key",
                FALSE)
    ELSE IF mutationResult.transformResults # {}
    THEN Throws("Transform results received by DeleteMutation.", FALSE)
    ELSE Returns(Null, FALSE)

DeleteMutation_applyToRemoteDocument(m, maybeDoc, mutationResult) ==
    IF ~verifyKeyMatches(m, maybeDoc)
    THEN Throws("Can only apply a mutation to a document with the same key",
                FALSE)
    ELSE IF mutationResult.transformResults # {}
    THEN Throws("Transform results received by DeleteMutation.", FALSE)
    ELSE Returns(NoDocument(m.key, MIN), FALSE)

\* Faulty variant: the local delete writes the tombstone at SnapshotVersion.MIN.
DeleteLocalAtMin(m, maybeDoc, baseDoc, localWriteTime) ==
    IF ~verifyKeyMatches(m, maybeDoc)
    THEN Throws("Can only apply a mutation to a document with the same key",
                FALSE)
    ELSE IF ~isValidFor(m.precondition, maybeDoc)
    THEN Returns(maybeDoc, TRUE)
    ELSE Returns(NoDocument(m.key, MIN), TRUE)

\* Faulty variant: the local delete treats a precondition that does not hold
\* as an error.
DeleteLocalFailingPrecondition(m, maybeDoc, baseDoc, localWriteTime) ==
    IF ~verifyKeyMatches(m, maybeDoc)
    THEN Throws("Can only apply a mutation to a document with the same key",
                FALSE)
    ELSE IF ~isValidFor(m.precondition, maybeDoc)
    THEN Throws("Precondition failed", TRUE)
    ELSE IF maybeDoc # Null /\ maybeDoc.key # m.key
    THEN Throws("Can only apply mutation to document with same key", TRUE)
    ELSE Returns(NoDocument(m.key, forDeletedDoc), TRUE)

DeleteMutation_applyToLocalView(m, maybeDoc, baseDoc, localWriteTime) ==
    IF ~verifyKeyMatches(m, maybeDoc)
    THEN Throws("Can only apply a mutation to a document with the same key",
                FALSE)
    ELSE IF ~isValidFor(m.precondition, maybeDoc)
    THEN Returns(maybeDoc, TRUE)
    ELSE IF maybeDoc # Null /\ maybeDoc.key # m.key
    THEN Throws("Can only apply mutation to document with same key", TRUE)
    ELSE Returns(NoDocument(m.key, forDeletedDoc), TRUE)

\* Dynamic dispatch on the mutation's class.
applyToRemoteDocument(m, maybeDoc, mutationResult) ==
    CASE m.type = "Set" ->
           SetMutation_applyToRemoteDocument(m, maybeDoc, mutationResult)
      [] m.type = "Patch" ->
           PatchMutation_applyToRemoteDocument(m, maybeDoc, mutationResult)
      [] m.type = "Transform" ->
           TransformMutation_applyToRemoteDocument(m, maybeDoc, mutationResult)
      [] m.type = "Delete" ->
           DeleteMutation_applyToRemoteDocument(m, maybeDoc, mutationResult)

applyToLocalView(m, maybeDoc, baseDoc, localWriteTime) ==
    CASE m.type = "Set" ->
           SetMutation_applyToLocalView(m, maybeDoc, baseDoc, localWriteTime)
      [] m.type = "Patch" ->
           PatchMutation_applyToLocalView(m, maybeDoc, baseDoc, localWriteTime)
      [] m.type = "Transform" ->
           TransformMutation_applyToLocalView(m, maybeDoc, baseDoc,
                                              localWriteTime)
      [] m.type = "Delete" ->
           DeleteMutation_applyToLocalView(m, maybeDoc, baseDoc,
                                           localWriteTime)

\* ---------------------------------------------------------------- isEqual
\* misc.equals on two optional values: both undefined, or both defined and
\* equal.
equals(left, right) == left = right

\* DocumentKey.isEqual, FieldPath.isEqual, ObjectValue.isEqual: structural.
DocumentKey_isEqual(key, other) == key = other
FieldPath_isEqual(path, other) == path = other
ObjectValue_isEqual(value, other) == value = other

\* Faulty variant: two preconditions are equal when both are empty or
\* neither is.
Precondition_isEqualByIsNone(p, other) == isNone(p) = isNone(other)

\* Precondition.isEqual
Precondition_isEqual(p, other) ==
    /\ equals(p.updateTime, other.updateTime)
    /\ p.exists = other.exists

\* misc.arrayEquals on two FieldPath[]: the same length and isEqual element
\* by element.
FieldPaths_arrayEquals(fields, other) ==
    /\ Len(fields) = Len(other)
    /\ \A i \in DOMAIN fields : FieldPath_isEqual(fields[i], other[i])

\* FieldMask.isEqual
FieldMask_isEqual(mask, other) == FieldPaths_arrayEquals(mask, other)

\* TransformOperation.isEqual: ServerTimestampTransform.isEqual is
\* `other instanceof ServerTimestampTransform`; another variant is equal to
\* its own variant.
TransformOperation_isEqual(transform, other) ==
    IF transform = ServerTimestampTransform
    THEN other = ServerTimestampTransform
    ELSE other = transform

\* FieldTransform.isEqual
FieldTransform_isEqual(fieldTransform, other) ==
    /\ FieldPath_isEqual(fieldTransform.field, other.field)
    /\ TransformOperation_isEqual(fieldTransform.transform, other.transform)

\* misc.arrayEquals on two FieldTransform[].
FieldTransforms_arrayEquals(fieldTransforms, other) ==
    /\ Len(fieldTransforms) = Len(other)
    /\ \A i \in DOMAIN fieldTransforms :
          FieldTransform_isEqual(fieldTransforms[i], other[i])

SetMutation_isEqual(m, other) ==
    /\ other.type = "Set"
    /\ DocumentKey_isEqual(m.key, other.key)
    /\ ObjectValue_isEqual(m.value, other.value)
    /\ Precondition_isEqual(m.precondition, other.precondition)

PatchMutation_isEqual(m, other) ==
    /\ other.type = "Patch"
    /\ DocumentKey_isEqual(m.key, other.key)
    /\ FieldMask_isEqual(m.fieldMask, other.fieldMask)
    /\ Precondition_isEqual(m.precondition, other.precondition)

TransformMutation_isEqual(m, other) ==
    /\ other.type = "Transform"
    /\ DocumentKey_isEqual(m.key, other.key)
    /\ FieldTransforms_arrayEquals(m.fieldTransforms, other.fieldTransforms)
    /\ Precondition_isEqual(m.precondition, other.precondition)

DeleteMutation_isEqual(m, other) ==
    /\ other.type = "Delete"
    /\ DocumentKey_isEqual(m.key, other.key)
    /\ Precondition_isEqual(m.precondition, other.precondition)

\* Mutation.isEqual, dispatched on the class of m.
isEqual(m, other) ==
    CASE m.type = "Set" -> SetMutation_isEqual(m, other)
      [] m.type = "Patch" -> PatchMutation_isEqual(m, other)
      [] m.type = "Transform" -> TransformMutation_isEqual(m, other)
      [] m.type = "Delete" -> DeleteMutation_isEqual(m, other)

\* ---------------------------------------------------------------- inputs
Numbers == {1, 2}
NumberValues == {NumberValue(n) : n \in Numbers}
\* The objects stored under a: {}, {x: 1}, {x: 2}.
SubObjects ==
    {ObjectValue(f) : f \in UNION {[S -> NumberValues] : S \in SUBSET {"x"}}}
\* The object values of a document or of a mutation: a is absent, a number
\* or an object; b is absent or a number.
Objects ==
    {ObjectValue(f) :
        f \in {g \in UNION {[S -> NumberValues \cup SubObjects] :
                               S \in SUBSET {"a", "b"}} :
                 "b" \in DOMAIN g => g["b"] \in NumberValues}}

\* The documents a caller may hold for a key: none, a NoDocument (at a
\* server version or at the deletion sentinel) or a Document.
MaybeDocuments ==
    {Null}
      \cup {NoDocument(k, v) : k \in Keys, v \in Versions \cup {forDeletedDoc}}
      \cup {Document(k, v, d, h) :
              k \in Keys, v \in Versions, d \in Objects, h \in BOOLEAN}

\* The key of the mutation under test; documents carry either key.
MutationKeys == {"k1"}

Preconditions ==
    {NONE, exists(TRUE), exists(FALSE)} \cup {updateTime(v) : v \in Versions}

RECURSIVE SeqsUpTo(_, _)
SeqsUpTo(S, n) ==
    IF n = 0 THEN {<<>>}
    ELSE LET shorter == SeqsUpTo(S, n - 1)
         IN shorter \cup {Append(q, e) : q \in shorter, e \in S}

FieldMasks == SeqsUpTo(Paths, MaxLen)
FieldTransforms ==
    {FieldTransform(p, t) :
        p \in Paths, t \in {ServerTimestampTransform, UnknownTransform}}

SetMutations ==
    {SetMutation(k, v, p) :
        k \in MutationKeys, v \in Objects, p \in Preconditions}
PatchMutations ==
    {PatchMutation(k, d, f, p) :
        k \in MutationKeys, d \in Objects, f \in FieldMasks,
        p \in Preconditions}
TransformMutations ==
    {TransformMutation(k, f) :
        k \in MutationKeys, f \in SeqsUpTo(FieldTransforms, MaxLen)}
DeleteMutations ==
    {DeleteMutation(k, p) : k \in MutationKeys, p \in Preconditions}

\* The commit version of a MutationResult: null for a delete, else the
\* newest server version (no apply method reads it).
CommitVersions(m) ==
    IF m.type = "Delete" THEN {{}} ELSE {{MaxVersion}}
\* transformResults: null, or a list of values: for a TransformMutation a
\* list of any length up to MaxLen (so that short and long lists occur);
\* for the other mutations, whose code only tests it against null, the
\* empty list.
TransformResults(m) ==
    {{}} \cup {{r} : r \in SeqsUpTo(NumberValues,
                                    IF m.type = "Transform" THEN MaxLen ELSE 0)}
MutationResults(m) ==
    {MutationResult(v, r) : v \in CommitVersions(m), r \in TransformResults(m)}

\* localWriteTime: only TransformMutation reads it.
LocalWriteTimes(m) == IF m.type = "Transform" THEN {1, 2} ELSE {1}
\* baseDoc: the document before the batch. Only TransformMutation reads
\* it (and only its data), so the other mutations get the document itself,
\* as the first mutation of a batch does.
BaseDocs(m, maybeDoc) ==
    IF m.type = "Transform"
    THEN {Null, maybeDoc}
           \cup {NoDocument(k, MIN) : k \in MutationKeys}
           \cup {Document(k, MIN, d, FALSE) : k \in MutationKeys, d \in Objects}
    ELSE {maybeDoc}

\* The mutations compared by isEqual: either key, a value or data that is
\* {}, {a: 1} or {a: 2}, masks over a and b, transforms of a.
EqualityObjects ==
    {ObjectValue(f) : f \in UNION {[S -> NumberValues] : S \in SUBSET {"a"}}}
EqualityMasks == SeqsUpTo({<<"a">>, <<"b">>}, MaxLen)
EqualityTransforms ==
    SeqsUpTo({FieldTransform(<<"a">>, t) :
                 t \in {ServerTimestampTransform, UnknownTransform}}, MaxLen)
EqualityMutations ==
    {SetMutation(k, v, p) :
        k \in Keys, v \in EqualityObjects, p \in Preconditions}
      \cup {PatchMutation(k, d, f, p) :
               k \in Keys, d \in EqualityObjects, f \in EqualityMasks,
               p \in Preconditions}
      \cup {TransformMutation(k, f) : k \in Keys, f \in EqualityTransforms}
      \cup {DeleteMutation(k, p) : k \in Keys, p \in Preconditions}

\* ----------------------------------------------------------------- state
VARIABLES
    maybeDoc,      \* the caller's current document for the key (or Null)
    call,          \* the last call: its method, mutation and arguments
    outcome,       \* what the last call did: Returns(..) or Throws(..)
    previous,      \* what the call before the last one did
    applications,  \* how many calls were made
    left,          \* isEqual: the mutation isEqual is called on
    right,         \* isEqual: the mutation it is compared with
    equal,         \* isEqual: what was compared and the result
    tokenDb,       \* messaging: the token details in the database, if any
    subscription,  \* messaging: the push manager's subscription, if any
    events,        \* messaging: the requests and writes made, in order
    pc,            \* messaging: the await deleteTokenInternal is at
    tokenDetails,  \* messaging: deleteTokenInternal's const tokenDetails
    pushSubscription, \* messaging: its const pushSubscription
    settled,       \* messaging: how the returned promise settled
    frames,        \* messaging: the getTokenInternal calls in flight
    now,           \* messaging: Date.now()
    start,         \* batch: the document before the first application
    intact,        \* batch: the key was a Document from the start until now
    before,        \* batch: the call before the last one
    persistentCacheIndexManagerByFirestore, \* index manager: the WeakMap
    offlineKind,   \* index manager: each Firestore's offline kind
    returned,      \* index manager: the instances returned, per Firestore
    lastCall       \* index manager: the last call and what it returned

applyVars == <<maybeDoc, call, outcome, previous, applications>>
equalityVars == <<left, right, equal>>
tokenVars ==
    <<tokenDb, subscription, events, pc, tokenDetails, pushSubscription,
      settled>>
getTokenVars == <<frames, now>>
batchVars == <<start, intact, before>>
indexVars ==
    <<persistentCacheIndexManagerByFirestore, offlineKind, returned, lastCall>>
otherVars == <<getTokenVars, batchVars, indexVars>>
vars == <<applyVars, equalityVars, tokenVars, otherVars>>

NoCall == [method |-> "none"]
LocalCall(m, doc, baseDoc, localWriteTime) ==
    [method |-> "applyToLocalView", mutation |-> m, maybeDoc |-> doc,
     baseDoc |-> baseDoc, localWriteTime |-> localWriteTime]
RemoteCall(m, doc, mutationResult) ==
    [method |-> "applyToRemoteDocument", mutation |-> m, maybeDoc |-> doc,
     mutationResult |-> mutationResult]

\* Nothing is being compared.
NoComparison ==
    /\ left = Null
    /\ right = Null
    /\ equal = [of |-> "none"]

\* No messaging call is in flight.
NoTokenCall ==
    /\ tokenDb = {}
    /\ subscription = {}
    /\ events = <<>>
    /\ pc = "none"
    /\ tokenDetails = {}
    /\ pushSubscription = {}
    /\ settled = [status |-> "none"]

\* No getTokenInternal call is in flight.
NoGetTokenCall ==
    /\ frames = <<>>
    /\ now = 0

\* No batch is being applied.
NoBatch ==
    /\ start = Null
    /\ intact = FALSE
    /\ before = NoCall

\* No Firestore object exists.
NoFirestore ==
    /\ persistentCacheIndexManagerByFirestore = <<>>
    /\ offlineKind = <<>>
    /\ returned = <<>>
    /\ lastCall = NoCall

Init ==
    /\ maybeDoc \in MaybeDocuments
    /\ call = NoCall
    /\ outcome = [status |-> "none"]
    /\ previous = [status |-> "none"]
    /\ applications = 0
    /\ NoComparison
    /\ NoTokenCall
    /\ NoGetTokenCall
    /\ NoBatch
    /\ NoFirestore

\* The caller keeps the returned document; a call that throws leaves the
\* caller's document as it was.
Complete(c, out) ==
    /\ call' = c
    /\ outcome' = out
    /\ previous' = outcome
    /\ maybeDoc' = IF out.status = "returned" THEN out.doc ELSE maybeDoc
    /\ applications' = applications + 1
    /\ UNCHANGED <<equalityVars, tokenVars, otherVars>>

\* One call of m.applyToLocalView / m.applyToRemoteDocument on the caller's
\* document, with the remaining arguments drawn from their sets.
LocalView(m) ==
    \E baseDoc \in BaseDocs(m, maybeDoc), t \in LocalWriteTimes(m) :
       Complete(LocalCall(m, maybeDoc, baseDoc, t),
                applyToLocalView(m, maybeDoc, baseDoc, t))

RemoteDocument(m) ==
    \E r \in MutationResults(m) :
       Complete(RemoteCall(m, maybeDoc, r),
                applyToRemoteDocument(m, maybeDoc, r))

SetLocal ==
    /\ applications = 0
    /\ \E m \in SetMutations : LocalView(m)

SetRemote ==
    /\ applications = 0
    /\ \E m \in SetMutations : RemoteDocument(m)

PatchLocal ==
    /\ applications = 0
    /\ \E m \in PatchMutations : LocalView(m)

PatchRemote ==
    /\ applications = 0
    /\ \E m \in PatchMutations : RemoteDocument(m)

TransformLocal ==
    /\ applications = 0
    /\ \E m \in TransformMutations : LocalView(m)

TransformRemote ==
    /\ applications = 0
    /\ \E m \in TransformMutations : RemoteDocument(m)

DeleteLocal ==
    /\ applications = 0
    /\ \E m \in DeleteMutations : LocalView(m)

DeleteRemote ==
    /\ applications = 0
    /\ \E m \in DeleteMutations : RemoteDocument(m)

\* The same call made again on the document the first call returned.
Reapply ==
    /\ applications = 1
    /\ outcome.status = "returned"
    /\ IF call.method = "applyToLocalView"
       THEN Complete([call EXCEPT !.maybeDoc = maybeDoc],
                     applyToLocalView(call.mutation, maybeDoc, call.baseDoc,
                                      call.localWriteTime))
       ELSE Complete([call EXCEPT !.maybeDoc = maybeDoc],
                     applyToRemoteDocument(call.mutation, maybeDoc,
                                           call.mutationResult))

Next ==
    \/ SetLocal
    \/ SetRemote
    \/ PatchLocal
    \/ PatchRemote
    \/ TransformLocal
    \/ TransformRemote
    \/ DeleteLocal
    \/ DeleteRemote
    \/ Reapply

Spec == Init /\ [][Next]_vars

\* ------------------------------------------------------- comparing values
\* Two mutations built by the constructors and the Precondition factories.
InitEquality ==
    /\ left \in EqualityMutations
    /\ right \in EqualityMutations
    /\ equal = [of |-> "none"]
    /\ maybeDoc = Null
    /\ call = NoCall
    /\ outcome = [status |-> "none"]
    /\ previous = [status |-> "none"]
    /\ applications = 0
    /\ NoTokenCall
    /\ NoGetTokenCall
    /\ NoBatch
    /\ NoFirestore

\* left.isEqual(right) and right.isEqual(left)
MutationIsEqual ==
    /\ equal.of = "none"
    /\ equal' = [of |-> "Mutation", result |-> isEqual(left, right),
                 reversed |-> isEqual(right, left)]
    /\ UNCHANGED <<left, right, applyVars, tokenVars, otherVars>>

\* left.precondition.isEqual(right.precondition) and the reverse
PreconditionIsEqual ==
    /\ equal.of = "none"
    /\ equal' = [of |-> "Precondition",
                 result |-> Precondition_isEqual(left.precondition,
                                                 right.precondition),
                 reversed |-> Precondition_isEqual(right.precondition,
                                                   left.precondition)]
    /\ UNCHANGED <<left, right, applyVars, tokenVars, otherVars>>

NextEquality ==
    \/ MutationIsEqual
    \/ PreconditionIsEqual

SpecEquality == InitEquality /\ [][NextEquality]_vars

\* ------------------------------------------------- messaging: token-manager
\* (packages/messaging/src/internals/token-manager.ts)
Tokens == {"t1", "t2"}
CreateTimes == {0, 1}
\* SubscriptionOptions: vapidKey, swScope, endpoint, auth, p256dh.
SubscriptionOptions(vapidKey, swScope, endpoint, auth, p256dh) ==
    [vapidKey |-> vapidKey, swScope |-> swScope, endpoint |-> endpoint,
     auth |-> auth, p256dh |-> p256dh]
SubscriptionOptionsSet ==
    {SubscriptionOptions(v, s, e, a, p) :
        v \in {"v1", "v2"}, s \in {"scope1", "scope2"}, e \in {"e1", "e2"},
        a \in {"YTE=", "YTI="}, p \in {"cDE=", "cDI="}}
\* TokenDetails: token, createTime, subscriptionOptions.
TokenDetails(token, createTime, subscriptionOptions) ==
    [token |-> token, createTime |-> createTime,
     subscriptionOptions |-> subscriptionOptions]
\* The push subscriptions of the service worker registration.
PushSubscriptions == {"s1", "s2"}

\* What an asynchronous function's promise settles to.
Pending == [status |-> "pending"]
Resolved(value) == [status |-> "resolved", value |-> value]
Rejected(error) == [status |-> "rejected", error |-> error]

\* The side effects, as the database, the backend and the push manager see
\* them.
RequestDeleteToken(token) == [op |-> "requestDeleteToken", token |-> token]
DbRemove == [op |-> "dbRemove"]
Unsubscribe(s) == [op |-> "unsubscribe", subscription |-> s]

\* deleteTokenInternal(messaging) has been called: the database holds token
\* details or none, the push manager a subscription or none.
InitToken ==
    /\ tokenDb \in {{}} \cup {{TokenDetails(t, c, o)} :
                                 t \in Tokens, c \in CreateTimes,
                                 o \in SubscriptionOptionsSet}
    /\ subscription \in {{}} \cup {{p} : p \in PushSubscriptions}
    /\ events = <<>>
    /\ pc = "dbGet"
    /\ tokenDetails = {}
    /\ pushSubscription = {}
    /\ settled = Pending
    /\ maybeDoc = Null
    /\ call = NoCall
    /\ outcome = [status |-> "none"]
    /\ previous = [status |-> "none"]
    /\ applications = 0
    /\ NoComparison
    /\ NoGetTokenCall
    /\ NoBatch
    /\ NoFirestore

\* An awaited promise rejects: the exception leaves deleteTokenInternal,
\* which has no try/catch, and its promise rejects with it.
Reject(error) ==
    /\ pc' = "done"
    /\ settled' = Rejected(error)

\* Faulty variant: the stored token is removed from the database without the
\* backend being asked to delete it.
deleteTokenInternal_dbGetSkippingRequest ==
    /\ pc = "dbGet"
    /\ \/ /\ tokenDetails' = tokenDb
          /\ pc' = IF tokenDb # {} THEN "dbRemove" ELSE "getSubscription"
          /\ UNCHANGED settled
       \/ /\ Reject("dbGet")
          /\ UNCHANGED tokenDetails
    /\ UNCHANGED <<tokenDb, subscription, events, pushSubscription>>
    /\ UNCHANGED <<applyVars, equalityVars, otherVars>>

\* const tokenDetails = await dbGet(...); if (tokenDetails) ...
deleteTokenInternal_dbGet ==
    /\ pc = "dbGet"
    /\ \/ /\ tokenDetails' = tokenDb
          /\ pc' = IF tokenDb # {} THEN "requestDeleteToken"
                                   ELSE "getSubscription"
          /\ UNCHANGED settled
       \/ /\ Reject("dbGet")
          /\ UNCHANGED tokenDetails
    /\ UNCHANGED <<tokenDb, subscription, events, pushSubscription>>
    /\ UNCHANGED <<applyVars, equalityVars, otherVars>>

\* await requestDeleteToken(..., tokenDetails.token)
deleteTokenInternal_requestDeleteToken ==
    /\ pc = "requestDeleteToken"
    /\ events' = Append(events,
                        RequestDeleteToken(
                            (CHOOSE d \in tokenDetails : TRUE).token))
    /\ \/ /\ pc' = "dbRemove"
          /\ UNCHANGED settled
       \/ Reject("requestDeleteToken")
    /\ UNCHANGED <<tokenDb, subscription, tokenDetails, pushSubscription>>
    /\ UNCHANGED <<applyVars, equalityVars, otherVars>>

\* await dbRemove(...)
deleteTokenInternal_dbRemove ==
    /\ pc = "dbRemove"
    /\ \/ /\ tokenDb' = {}
          /\ events' = Append(events, DbRemove)
          /\ pc' = "getSubscription"
          /\ UNCHANGED settled
       \/ /\ Reject("dbRemove")
          /\ UNCHANGED <<tokenDb, events>>
    /\ UNCHANGED <<subscription, tokenDetails, pushSubscription>>
    /\ UNCHANGED <<applyVars, equalityVars, otherVars>>

\* const pushSubscription = await ...pushManager.getSubscription();
\* without a subscription: return true.
deleteTokenInternal_getSubscription ==
    /\ pc = "getSubscription"
    /\ \/ /\ pushSubscription' = subscription
          /\ IF subscription # {}
             THEN pc' = "unsubscribe" /\ UNCHANGED settled
             ELSE pc' = "done" /\ settled' = Resolved(TRUE)
       \/ /\ Reject("getSubscription")
          /\ UNCHANGED pushSubscription
    /\ UNCHANGED <<tokenDb, subscription, events, tokenDetails>>
    /\ UNCHANGED <<applyVars, equalityVars, otherVars>>

\* return pushSubscription.unsubscribe(): the push manager ends the
\* subscription and the promise resolves with the boolean it reports, or
\* the push manager fails and the subscription stays.
deleteTokenInternal_unsubscribe ==
    /\ pc = "unsubscribe"
    /\ \/ /\ subscription' = {}
          /\ events' = Append(events,
                              Unsubscribe(CHOOSE p \in pushSubscription : TRUE))
          /\ pc' = "done"
          /\ \E successful \in BOOLEAN : settled' = Resolved(successful)
       \/ /\ Reject("unsubscribe")
          /\ UNCHANGED <<subscription, events>>
    /\ UNCHANGED <<tokenDb, tokenDetails, pushSubscription>>
    /\ UNCHANGED <<applyVars, equalityVars, otherVars>>

NextToken ==
    \/ deleteTokenInternal_dbGet
    \/ deleteTokenInternal_requestDeleteToken
    \/ deleteTokenInternal_dbRemove
    \/ deleteTokenInternal_getSubscription
    \/ deleteTokenInternal_unsubscribe

SpecToken == InitToken /\ [][NextToken]_vars

\* ------------------------------------------------------ getTokenInternal
\* const TOKEN_EXPIRATION_MS = 7 * 24 * 60 * 60 * 1000
TOKEN_EXPIRATION_MS == 7 * 24 * 60 * 60 * 1000

\* messaging.vapidKey and messaging.swRegistration.scope
VapidKey == "v1"
SwScope == "scope1"
\* pushSubscription.endpoint
endpoint(s) == IF s = "s1" THEN "e1" ELSE "e2"
\* pushSubscription.getKey(name): the bytes of the key.
getKey(s, name) ==
    IF name = "auth"
    THEN (IF s = "s1" THEN <<97, 49>> ELSE <<97, 50>>)
    ELSE (IF s = "s1" THEN <<112, 49>> ELSE <<112, 50>>)
\* arrayToBase64 of the two-byte keys above.
arrayToBase64(array) ==
    CASE array = <<97, 49>> -> "YTE="
      [] array = <<97, 50>> -> "YTI="
      [] array = <<112, 49>> -> "cDE="
      [] array = <<112, 50>> -> "cDI="
\* The subscription pushManager.subscribe creates.
NewSubscription == "s1"

\* The subscriptionOptions getTokenInternal builds from the messaging
\* service and the push subscription.
CurrentOptions(s) ==
    SubscriptionOptions(VapidKey, SwScope, endpoint(s),
                        arrayToBase64(getKey(s, "auth")),
                        arrayToBase64(getKey(s, "p256dh")))

\* isTokenValid(dbOptions, currentOptions)
isTokenValid(dbOptions, currentOptions) ==
    LET isVapidKeyEqual == currentOptions.vapidKey = dbOptions.vapidKey
        isEndpointEqual == currentOptions.endpoint = dbOptions.endpoint
        isAuthEqual == currentOptions.auth = dbOptions.auth
        isP256dhEqual == currentOptions.p256dh = dbOptions.p256dh
    IN isVapidKeyEqual /\ isEndpointEqual /\ isAuthEqual /\ isP256dhEqual

\* Date.now() around the expiry of a token created at 0 or 1.
Nows == {TOKEN_EXPIRATION_MS - 1, TOKEN_EXPIRATION_MS, TOKEN_EXPIRATION_MS + 1}

\* Further side effects seen by the backend and the console.
RequestGetToken(subscriptionOptions) ==
    [op |-> "requestGetToken", subscriptionOptions |-> subscriptionOptions]
RequestUpdateToken(details) ==
    [op |-> "requestUpdateToken", tokenDetails |-> details]
Warn(error) == [op |-> "console.warn", error |-> error]

\* The frame of a call of getTokenInternal: where it is, its locals
\* (pushSubscription, subscriptionOptions, tokenDetails, the token the
\* backend returned, the token details built from it and handed to dbSet
\* (tokenDetails of getNewToken, updatedTokenDetails of updateToken), the
\* error updateToken caught) and its promise.
NewFrame ==
    [pc |-> "getSubscription", pushSubscription |-> {},
     subscriptionOptions |-> {}, tokenDetails |-> {}, token |-> {},
     updatedTokenDetails |-> {}, error |-> {}, settled |-> Pending]

\* The call of frame p settles.
Settle(p, s) == [frames EXCEPT ![p].pc = "done", ![p].settled = s]

\* No deleteTokenInternal call has been made.
NoDeleteCall ==
    /\ pc = "none"
    /\ tokenDetails = {}
    /\ pushSubscription = {}
    /\ settled = [status |-> "none"]

\* The locals and the promise of the deleteTokenInternal call.
deleteVars == <<pc, tokenDetails, pushSubscription, settled>>

\* getTokenInternal(messaging) has been called once, with any token
\* details in the database, or twice at once with the database empty.
InitGetToken ==
    /\ \/ /\ frames = [p \in {1} |-> NewFrame]
          /\ tokenDb \in {{}} \cup {{TokenDetails(t, c, o)} :
                                       t \in Tokens, c \in CreateTimes,
                                       o \in SubscriptionOptionsSet}
       \/ /\ frames = [p \in {1, 2} |-> NewFrame]
          /\ tokenDb = {}
    /\ subscription \in {{}} \cup {{p} : p \in PushSubscriptions}
    /\ now \in Nows
    /\ events = <<>>
    /\ NoDeleteCall
    /\ maybeDoc = Null
    /\ call = NoCall
    /\ outcome = [status |-> "none"]
    /\ previous = [status |-> "none"]
    /\ applications = 0
    /\ NoComparison
    /\ NoBatch
    /\ NoFirestore

\* Time passes.
DateNow ==
    /\ now + 1 \in Nows
    /\ now' = now + 1
    /\ UNCHANGED <<frames, tokenVars>>
    /\ UNCHANGED <<applyVars, equalityVars, batchVars, indexVars>>

\* getPushSubscription: const subscription = await
\* swRegistration.pushManager.getSubscription(); if (subscription) return it.
getPushSubscription_getSubscription ==
    /\ frames # <<>>
    /\ \E p \in DOMAIN frames :
          /\ frames[p].pc = "getSubscription"
          /\ \/ /\ subscription # {}
                /\ frames' =
                     [frames EXCEPT
                        ![p].pc = "dbGet",
                        ![p].pushSubscription = subscription,
                        ![p].subscriptionOptions =
                            {CurrentOptions(s) : s \in subscription}]
             \/ /\ subscription = {}
                /\ frames' = [frames EXCEPT ![p].pc = "ready"]
             \/ frames' = Settle(p, Rejected("getSubscription"))
    /\ UNCHANGED <<now, tokenVars>>
    /\ UNCHANGED <<applyVars, equalityVars, batchVars, indexVars>>

\* getPushSubscription: await swRegistration.serviceWorker.ready
getPushSubscription_ready ==
    /\ frames # <<>>
    /\ \E p \in DOMAIN frames :
          /\ frames[p].pc = "ready"
          /\ \/ frames' = [frames EXCEPT ![p].pc = "subscribe"]
             \/ frames' = Settle(p, Rejected("ready"))
    /\ UNCHANGED <<now, tokenVars>>
    /\ UNCHANGED <<applyVars, equalityVars, batchVars, indexVars>>

\* getPushSubscription: return swRegistration.pushManager.subscribe(...).
\* The push manager returns the subscription it has, or creates one.
getPushSubscription_subscribe ==
    /\ frames # <<>>
    /\ \E p \in DOMAIN frames :
          /\ frames[p].pc = "subscribe"
          /\ \/ /\ subscription' =
                     IF subscription # {} THEN subscription
                                          ELSE {NewSubscription}
                /\ frames' =
                     [frames EXCEPT
                        ![p].pc = "dbGet",
                        ![p].pushSubscription = subscription',
                        ![p].subscriptionOptions =
                            {CurrentOptions(s) : s \in subscription'}]
             \/ /\ frames' = Settle(p, Rejected("subscribe"))
                /\ UNCHANGED subscription
    /\ UNCHANGED <<now, tokenDb, events, deleteVars>>
    /\ UNCHANGED <<applyVars, equalityVars, batchVars, indexVars>>

\* const tokenDetails = await dbGet(...) and the branch taken on it: no
\* token, invalid token, weekly refresh (updateToken is called with the
\* stored token, createTime Date.now() and the current options), or the
\* valid token is returned.
getTokenInternal_dbGet ==
    /\ frames # <<>>
    /\ \E p \in DOMAIN frames :
          /\ frames[p].pc = "dbGet"
          /\ \/ /\ tokenDb = {}
                /\ frames' = [frames EXCEPT ![p].pc = "requestGetToken"]
             \/ \E d \in tokenDb, o \in frames[p].subscriptionOptions :
                   frames' =
                     IF ~isTokenValid(d.subscriptionOptions, o)
                     THEN [frames EXCEPT ![p].pc = "requestDeleteToken",
                                         ![p].tokenDetails = {d}]
                     ELSE IF now >= d.createTime + TOKEN_EXPIRATION_MS
                     THEN [frames EXCEPT
                             ![p].pc = "requestUpdateToken",
                             ![p].tokenDetails =
                                 {TokenDetails(d.token, now, o)}]
                     ELSE [frames EXCEPT
                             ![p].pc = "done",
                             ![p].tokenDetails = {d},
                             ![p].settled = Resolved(d.token)]
             \/ frames' = Settle(p, Rejected("dbGet"))
    /\ UNCHANGED <<now, tokenVars>>
    /\ UNCHANGED <<applyVars, equalityVars, batchVars, indexVars>>

\* Faulty variant: a failure of the delete request rejects the call.
getTokenInternal_requestDeleteTokenThrowing ==
    /\ frames # <<>>
    /\ \E p \in DOMAIN frames :
          /\ frames[p].pc = "requestDeleteToken"
          /\ \E d \in frames[p].tokenDetails :
               \/ /\ events' = Append(events, RequestDeleteToken(d.token))
                  /\ frames' = [frames EXCEPT ![p].pc = "requestGetToken"]
               \/ /\ events' = Append(events, RequestDeleteToken(d.token))
                  /\ frames' = Settle(p, Rejected("requestDeleteToken"))
    /\ UNCHANGED <<now, tokenDb, subscription, deleteVars>>
    /\ UNCHANGED <<applyVars, equalityVars, batchVars, indexVars>>

\* try { await requestDeleteToken(..., tokenDetails.token) }
\* catch (e) { console.warn(e) }
getTokenInternal_requestDeleteToken ==
    /\ frames # <<>>
    /\ \E p \in DOMAIN frames :
          /\ frames[p].pc = "requestDeleteToken"
          /\ \E d \in frames[p].tokenDetails :
               \/ events' = Append(events, RequestDeleteToken(d.token))
               \/ events' = Append(Append(events, RequestDeleteToken(d.token)),
                                   Warn("requestDeleteToken"))
          /\ frames' = [frames EXCEPT ![p].pc = "requestGetToken"]
    /\ UNCHANGED <<now, tokenDb, subscription, deleteVars>>
    /\ UNCHANGED <<applyVars, equalityVars, batchVars, indexVars>>

\* getNewToken: const token = await requestGetToken(..., subscriptionOptions);
\* const tokenDetails = {token, createTime: Date.now(), subscriptionOptions},
\* with which dbSet is called.
getNewToken_requestGetToken ==
    /\ frames # <<>>
    /\ \E p \in DOMAIN frames :
          /\ frames[p].pc = "requestGetToken"
          /\ \E o \in frames[p].subscriptionOptions :
               /\ events' = Append(events, RequestGetToken(o))
               /\ \/ \E token \in Tokens :
                        frames' =
                          [frames EXCEPT
                             ![p].pc = "dbSet",
                             ![p].token = {token},
                             ![p].updatedTokenDetails =
                                 {TokenDetails(token, now, o)}]
                  \/ frames' = Settle(p, Rejected("requestGetToken"))
    /\ UNCHANGED <<now, tokenDb, subscription, deleteVars>>
    /\ UNCHANGED <<applyVars, equalityVars, batchVars, indexVars>>

\* getNewToken: await dbSet(..., tokenDetails) completes;
\* return tokenDetails.token
getNewToken_dbSet ==
    /\ frames # <<>>
    /\ \E p \in DOMAIN frames :
          /\ frames[p].pc = "dbSet"
          /\ \E d \in frames[p].updatedTokenDetails :
               \/ /\ tokenDb' = {d}
                  /\ frames' = Settle(p, Resolved(d.token))
               \/ /\ frames' = Settle(p, Rejected("dbSet"))
                  /\ UNCHANGED tokenDb
    /\ UNCHANGED <<now, subscription, events, deleteVars>>
    /\ UNCHANGED <<applyVars, equalityVars, batchVars, indexVars>>

\* updateToken: const updatedToken = await requestUpdateToken(...,
\* tokenDetails); const updatedTokenDetails = {...tokenDetails,
\* token: updatedToken, createTime: Date.now()}, with which dbSet is called;
\* a failure is caught.
updateToken_requestUpdateToken ==
    /\ frames # <<>>
    /\ \E p \in DOMAIN frames :
          /\ frames[p].pc = "requestUpdateToken"
          /\ \E d \in frames[p].tokenDetails :
               /\ events' = Append(events, RequestUpdateToken(d))
               /\ \/ \E updatedToken \in Tokens :
                        frames' =
                          [frames EXCEPT
                             ![p].pc = "updateDbSet",
                             ![p].token = {updatedToken},
                             ![p].updatedTokenDetails =
                                 {TokenDetails(updatedToken, now,
                                               d.subscriptionOptions)}]
                  \/ frames' = [frames EXCEPT
                                  ![p].pc = "catch",
                                  ![p].error = {"requestUpdateToken"}]
    /\ UNCHANGED <<now, tokenDb, subscription, deleteVars>>
    /\ UNCHANGED <<applyVars, equalityVars, batchVars, indexVars>>

\* updateToken: await dbSet(..., updatedTokenDetails) completes;
\* return updatedToken; a failure is caught.
updateToken_dbSet ==
    /\ frames # <<>>
    /\ \E p \in DOMAIN frames :
          /\ frames[p].pc = "updateDbSet"
          /\ \E updatedToken \in frames[p].token,
                d \in frames[p].updatedTokenDetails :
               \/ /\ tokenDb' = {d}
                  /\ frames' = Settle(p, Resolved(updatedToken))
               \/ /\ frames' = [frames EXCEPT ![p].pc = "catch",
                                               ![p].error = {"dbSet"}]
                  /\ UNCHANGED tokenDb
    /\ UNCHANGED <<now, subscription, events, deleteVars>>
    /\ UNCHANGED <<applyVars, equalityVars, batchVars, indexVars>>

\* updateToken: catch (e) { await deleteTokenInternal(messaging) ...: the
\* call of deleteTokenInternal starts; its steps are the actions above.
updateToken_catch ==
    /\ frames # <<>>
    /\ pc \in {"none", "done"}
    /\ \E p \in DOMAIN frames :
          /\ frames[p].pc = "catch"
          /\ frames' = [frames EXCEPT ![p].pc = "deleteTokenInternal"]
    /\ pc' = "dbGet"
    /\ tokenDetails' = {}
    /\ pushSubscription' = {}
    /\ settled' = Pending
    /\ UNCHANGED <<now, tokenDb, subscription, events>>
    /\ UNCHANGED <<applyVars, equalityVars, batchVars, indexVars>>

\* updateToken: ... await deleteTokenInternal(messaging); throw e; }: when
\* deleteTokenInternal has resolved e is thrown; when it has rejected, the
\* await throws its error out of the catch block.
updateToken_throw ==
    /\ frames # <<>>
    /\ pc = "done"
    /\ \E p \in DOMAIN frames :
          /\ frames[p].pc = "deleteTokenInternal"
          /\ \E e \in frames[p].error :
                frames' =
                  Settle(p, IF settled.status = "resolved"
                            THEN Rejected(e)
                            ELSE Rejected(settled.error))
    /\ UNCHANGED <<now, tokenVars>>
    /\ UNCHANGED <<applyVars, equalityVars, batchVars, indexVars>>

NextGetToken ==
    \/ DateNow
    \/ getPushSubscription_getSubscription
    \/ getPushSubscription_ready
    \/ getPushSubscription_subscribe
    \/ getTokenInternal_dbGet
    \/ getTokenInternal_requestDeleteToken
    \/ getNewToken_requestGetToken
    \/ getNewToken_dbSet
    \/ updateToken_requestUpdateToken
    \/ updateToken_dbSet
    \/ updateToken_catch
    \/ deleteTokenInternal_dbGet
    \/ deleteTokenInternal_requestDeleteToken
    \/ deleteTokenInternal_dbRemove
    \/ deleteTokenInternal_getSubscription
    \/ deleteTokenInternal_unsubscribe
    \/ updateToken_throw

SpecGetToken == InitGetToken /\ [][NextGetToken]_vars

\* --------------------------------------- PersistentCacheIndexManager
\* (packages/firestore/src/api/persistent_cache_index_manager.ts)
Firestores == {"f1", "f2", "f3"}
\* client._uninitializedComponentsProvider?._offlineKind: undefined ({}) when
\* there is no provider, else the provider's kind.
OfflineKinds == {{}, {"persistent"}, {"memory"}}

\* ensureFirestoreConfigured(firestore): the Firestore's client.
ensureFirestoreConfigured(firestore) ==
    [firestore |-> firestore, _offlineKind |-> offlineKind[firestore]]

\* new PersistentCacheIndexManager(client); id is the object's identity.
PersistentCacheIndexManager(client, id) ==
    [type |-> "PersistentCacheIndexManager", _client |-> client, id |-> id]

\* The identity of the next object created: every instance created so far
\* was returned to a caller.
NewIdentity ==
    Cardinality(UNION {returned[f] : f \in DOMAIN returned}) + 1

\* Faulty variant: the new instance is not put into the map.
getPersistentCacheIndexManagerUncached(firestore) ==
    LET cachedInstance == persistentCacheIndexManagerByFirestore[firestore]
        client == ensureFirestoreConfigured(firestore)
    IN IF cachedInstance # {}
       THEN [result |-> cachedInstance,
             map |-> persistentCacheIndexManagerByFirestore]
       ELSE IF client._offlineKind # {"persistent"}
       THEN [result |-> {}, map |-> persistentCacheIndexManagerByFirestore]
       ELSE [result |-> {PersistentCacheIndexManager(client, NewIdentity)},
             map |-> persistentCacheIndexManagerByFirestore]

\* getPersistentCacheIndexManager(firestore): what it returns (null is {})
\* and the map it leaves.
getPersistentCacheIndexManager(firestore) ==
    LET cachedInstance == persistentCacheIndexManagerByFirestore[firestore]
        client == ensureFirestoreConfigured(firestore)
    IN IF cachedInstance # {}
       THEN [result |-> cachedInstance,
             map |-> persistentCacheIndexManagerByFirestore]
       ELSE IF client._offlineKind # {"persistent"}
       THEN [result |-> {}, map |-> persistentCacheIndexManagerByFirestore]
       ELSE LET instance == PersistentCacheIndexManager(client, NewIdentity)
            IN [result |-> {instance},
                map |-> [persistentCacheIndexManagerByFirestore
                           EXCEPT ![firestore] = {instance}]]

\* The Firestore objects exist, each with its offline kind; the WeakMap is
\* empty.
InitIndexManager ==
    /\ persistentCacheIndexManagerByFirestore = [f \in Firestores |-> {}]
    /\ offlineKind \in [Firestores -> OfflineKinds]
    /\ returned = [f \in Firestores |-> {}]
    /\ lastCall = NoCall
    /\ maybeDoc = Null
    /\ call = NoCall
    /\ outcome = [status |-> "none"]
    /\ previous = [status |-> "none"]
    /\ applications = 0
    /\ NoComparison
    /\ NoTokenCall
    /\ NoGetTokenCall
    /\ NoBatch

\* A call of getPersistentCacheIndexManager on one of the Firestores.
GetPersistentCacheIndexManager ==
    \E firestore \in Firestores :
       LET got == getPersistentCacheIndexManager(firestore)
       IN /\ persistentCacheIndexManagerByFirestore' = got.map
          /\ returned' = [returned EXCEPT ![firestore] = @ \cup got.result]
          /\ lastCall' =
               [firestore |-> firestore,
                cachedInstance |->
                    persistentCacheIndexManagerByFirestore[firestore],
                result |-> got.result]
          /\ UNCHANGED offlineKind
          /\ UNCHANGED <<applyVars, equalityVars, tokenVars, getTokenVars,
                         batchVars>>

NextIndexManager == GetPersistentCacheIndexManager

SpecIndexManager == InitIndexManager /\ [][NextIndexManager]_vars

\* ------------------------------------------- batches applied to one key
\* The longest sequence of applications.
MaxBatch == 3

\* The key the mutations are for.
BatchKey == "k1"
\* Values and data: {} and {a: 1}.
BatchObjects ==
    {ObjectValue(f) :
        f \in UNION {[S -> {NumberValue(1)}] : S \in SUBSET {"a"}}}
\* What is known of the key before the first application.
BatchDocuments ==
    {Null}
      \cup {NoDocument(BatchKey, v) : v \in Versions \cup {forDeletedDoc}}
      \cup {Document(BatchKey, v, d, h) :
              v \in Versions, d \in BatchObjects, h \in BOOLEAN}
\* No precondition, either "exists" precondition, and an "updateTime" one.
BatchPreconditions ==
    {NONE, exists(TRUE), exists(FALSE), updateTime(MaxVersion)}
\* Mutations of every kind and precondition: a set of {a: 1}, patches of
\* field a (written or deleted), server timestamps at a or at b, deletes.
BatchMutations ==
    {SetMutation(BatchKey, ObjectValue([n \in {"a"} |-> NumberValue(1)]), p) :
        p \in BatchPreconditions}
      \cup {PatchMutation(BatchKey, d, <<(<<"a">>)>>, p) :
               d \in BatchObjects, p \in BatchPreconditions}
      \cup {TransformMutation(BatchKey,
                               <<FieldTransform(path,
                                                ServerTimestampTransform)>>) :
               path \in {<<"a">>, <<"b">>}}
      \cup {DeleteMutation(BatchKey, p) : p \in BatchPreconditions}

\* The MutationResult the backend sends for m: one transform result per
\* field transform of a TransformMutation, none for the other mutations.
BatchResult(m) ==
    MutationResult(
        IF m.type = "Delete" THEN {} ELSE {MaxVersion},
        IF m.type = "Transform"
        THEN {[i \in DOMAIN m.fieldTransforms |-> NumberValue(2)]}
        ELSE {})

InitBatch ==
    /\ maybeDoc \in BatchDocuments
    /\ start = maybeDoc
    /\ intact = (maybeDoc.type = "Document")
    /\ before = NoCall
    /\ call = NoCall
    /\ outcome = [status |-> "none"]
    /\ previous = [status |-> "none"]
    /\ applications = 0
    /\ NoComparison
    /\ NoTokenCall
    /\ NoGetTokenCall
    /\ NoFirestore

\* The next application: the caller keeps the document returned.
BatchApply(c, out) ==
    /\ call' = c
    /\ before' = call
    /\ outcome' = out
    /\ previous' = outcome
    /\ maybeDoc' = IF out.status = "returned" THEN out.doc ELSE maybeDoc
    /\ intact' = (intact /\ maybeDoc'.type = "Document")
    /\ applications' = applications + 1
    /\ UNCHANGED start
    /\ UNCHANGED <<equalityVars, tokenVars, getTokenVars, indexVars>>

\* m.applyToLocalView(maybeDoc, baseDoc, localWriteTime), baseDoc being the
\* document before the batch.
BatchLocal ==
    /\ applications < MaxBatch
    /\ \E m \in BatchMutations :
       BatchApply(LocalCall(m, maybeDoc, start, 1),
                  applyToLocalView(m, maybeDoc, start, 1))

\* m.applyToRemoteDocument(maybeDoc, mutationResult)
BatchRemote ==
    /\ applications < MaxBatch
    /\ \E m \in BatchMutations :
       BatchApply(RemoteCall(m, maybeDoc, BatchResult(m)),
                  applyToRemoteDocument(m, maybeDoc, BatchResult(m)))

NextBatch ==
    \/ BatchLocal
    \/ BatchRemote

SpecBatch == InitBatch /\ [][NextBatch]_vars

\* ================================================================ claims
\* The last call was method `method` of a mutation of variant `type`.
Called(method, type) ==
    call.method = method /\ call.mutation.type = type

\* The document given to the last call is absent or has the mutation's key.
KeyMatched == call.maybeDoc = Null \/ call.maybeDoc.key = call.mutation.key

\* The version the claims expect of a created or replaced Document.
ExpectedVersion(d) == IF d.type = "Document" THEN d.version ELSE MIN

\* ------------------------------------------------------------------- C1
\* C1: SetMutation.applyToRemoteDocument with a matching key and a result
\* without transformResults returns Document(key, version, value,
\* hasLocalMutations=false), version being the prior Document's version and
\* MIN for a NoDocument or an absent document, for every precondition, and
\* the precondition is not evaluated.
TheoremC1 ==
    (Called("applyToRemoteDocument", "Set") /\ KeyMatched
       /\ call.mutationResult.transformResults = {})
    => /\ outcome.status = "returned"
       /\ outcome.doc = Document(call.mutation.key,
                                 ExpectedVersion(call.maybeDoc),
                                 call.mutation.value, FALSE)
       /\ ~outcome.checkedPrecondition

\* A remote set on NoDocument(v = 1) whose precondition Exists(true) does
\* not hold there produced Document(MIN).
WitnessC1 ==
    /\ Called("applyToRemoteDocument", "Set")
    /\ call.maybeDoc = NoDocument("k1", 1)
    /\ call.mutation.precondition = exists(TRUE)
    /\ outcome.status = "returned"
    /\ outcome.doc.type = "Document"
    /\ outcome.doc.version = MIN
    /\ ~outcome.doc.hasLocalMutations

\* ------------------------------------------------------------------- C2
\* C2: SetMutation.applyToLocalView, when its precondition is valid for the
\* prior state, returns Document(key, postMutationVersion(prior), value,
\* hasLocalMutations=true); the data is the mutation's value whatever the
\* prior Document held.
TheoremC2 ==
    (Called("applyToLocalView", "Set") /\ KeyMatched
       /\ isValidFor(call.mutation.precondition, call.maybeDoc))
    => /\ outcome.status = "returned"
       /\ outcome.doc = Document(call.mutation.key,
                                 ExpectedVersion(call.maybeDoc),
                                 call.mutation.value, TRUE)
       /\ outcome.doc.data = call.mutation.value

\* A local set replaced a Document whose data differed from the value set.
WitnessC2 ==
    /\ Called("applyToLocalView", "Set")
    /\ call.maybeDoc.type = "Document"
    /\ call.maybeDoc.version = 1
    /\ call.maybeDoc.data # call.mutation.value
    /\ call.maybeDoc.data # EMPTY
    /\ call.mutation.precondition = updateTime(1)
    /\ outcome.status = "returned"
    /\ outcome.doc.data = call.mutation.value
    /\ outcome.doc.version = 1

\* ------------------------------------------------------------------- C3
\* The result argument of a remote call is well formed for a mutation that
\* is not a TransformMutation: it carries no transformResults.
NoTransformResults ==
    call.method = "applyToRemoteDocument"
        => call.mutationResult.transformResults = {}

PatchCalled ==
    /\ call.method \in {"applyToLocalView", "applyToRemoteDocument"}
    /\ call.mutation.type = "Patch"
    /\ NoTransformResults

\* C3 as claimed: a PatchMutation applied to NoDocument(v) or to an absent
\* document returns that input unchanged on both paths, for every
\* precondition (None, Exists(true), Exists(false), UpdateTime).
OriginalC3 ==
    (PatchCalled /\ KeyMatched /\ call.maybeDoc.type # "Document")
    => outcome = Returns(call.maybeDoc, TRUE)

\* C3 as amended: the input is returned unchanged when the precondition is
\* Exists(true) or UpdateTime; with None or Exists(false) the precondition
\* holds for a NoDocument or absent input and the patch creates
\* Document(key, MIN, the mask applied to the empty object).
TheoremC3 ==
    (PatchCalled /\ KeyMatched /\ call.maybeDoc.type # "Document")
    => LET p == call.mutation.precondition
       IN /\ outcome.status = "returned"
          /\ (p.updateTime # {} \/ p.exists = {TRUE})
                => outcome.doc = call.maybeDoc
          /\ (p = NONE \/ p.exists = {FALSE})
                => /\ outcome.doc.type = "Document"
                   /\ outcome.doc.key = call.mutation.key
                   /\ outcome.doc.version = MIN
                   /\ outcome.doc.hasLocalMutations
                        = (call.method = "applyToLocalView")
                   /\ \A path \in Paths :
                         path \in {call.mutation.fieldMask[i] :
                                     i \in DOMAIN call.mutation.fieldMask}
                           => field(outcome.doc.data, path)
                                = field(call.mutation.data, path)

\* Both cases happened: a patch with Exists(true) left NoDocument(1) as it
\* was, on the remote path.
WitnessC3 ==
    /\ Called("applyToRemoteDocument", "Patch")
    /\ call.maybeDoc = NoDocument("k1", 1)
    /\ call.mutation.precondition = exists(TRUE)
    /\ call.mutation.fieldMask # <<>>
    /\ outcome = Returns(NoDocument("k1", 1), TRUE)

\* ------------------------------------------------------------------- C4
\* C4 as claimed: DeleteMutation.applyToLocalView on any prior state and
\* for any precondition yields NoDocument(key, deleted-sentinel), distinct
\* from the remote result NoDocument(key, MIN).
OriginalC4 ==
    (Called("applyToLocalView", "Delete") /\ KeyMatched)
    => /\ outcome.status = "returned"
       /\ outcome.doc = NoDocument(call.mutation.key, forDeletedDoc)
       /\ outcome.doc # NoDocument(call.mutation.key, MIN)

\* C4 as amended: the local delete yields NoDocument(key, deleted-sentinel)
\* on every prior state for which its precondition is valid, and that is
\* not NoDocument(key, MIN); when the precondition is invalid it returns
\* the prior state unchanged.
TheoremC4 ==
    (Called("applyToLocalView", "Delete") /\ KeyMatched)
    => /\ outcome.status = "returned"
       /\ isValidFor(call.mutation.precondition, call.maybeDoc)
            => /\ outcome.doc = NoDocument(call.mutation.key, forDeletedDoc)
               /\ outcome.doc # NoDocument(call.mutation.key, MIN)
               /\ outcome.doc.version # MIN
       /\ ~isValidFor(call.mutation.precondition, call.maybeDoc)
            => outcome.doc = call.maybeDoc

\* A local delete with precondition UpdateTime(1) turned Document(v = 1)
\* into the tombstone.
WitnessC4 ==
    /\ Called("applyToLocalView", "Delete")
    /\ call.maybeDoc.type = "Document"
    /\ call.mutation.precondition = updateTime(1)
    /\ outcome.status = "returned"
    /\ outcome.doc.type = "NoDocument"
    /\ outcome.doc.version = forDeletedDoc

\* ------------------------------------------------------------------- C5
\* C5: DeleteMutation.applyToRemoteDocument with a matching key and no
\* transformResults returns NoDocument(key, MIN) for every prior state and
\* every precondition, also one that is invalid for the prior state.
TheoremC5 ==
    (Called("applyToRemoteDocument", "Delete") /\ KeyMatched
       /\ call.mutationResult.transformResults = {})
    => outcome = Returns(NoDocument(call.mutation.key, MIN), FALSE)

\* A remote delete whose precondition Exists(true) is invalid for the absent
\* document still produced NoDocument(MIN).
WitnessC5 ==
    /\ Called("applyToRemoteDocument", "Delete")
    /\ call.maybeDoc = Null
    /\ call.mutation.precondition = exists(TRUE)
    /\ ~isValidFor(call.mutation.precondition, call.maybeDoc)
    /\ outcome.status = "returned"
    /\ outcome.doc = NoDocument("k1", MIN)

\* ------------------------------------------------------------------- C6
TransformCalled ==
    /\ call.method \in {"applyToLocalView", "applyToRemoteDocument"}
    /\ call.mutation.type = "Transform"

\* C6: a TransformMutation never creates a Document: its precondition is
\* always Exists(true); applied (with a matching key) to NoDocument(v) or to
\* an absent document, on the local path or on the remote path with
\* transformResults present, it returns the input unchanged; and whenever it
\* returns a Document, it was given one.
TheoremC6 ==
    TransformCalled
    => /\ call.mutation.precondition = [updateTime |-> {}, exists |-> {TRUE}]
       /\ (/\ KeyMatched
           /\ call.maybeDoc.type # "Document"
           /\ call.method = "applyToRemoteDocument"
                => call.mutationResult.transformResults # {})
            => outcome = Returns(call.maybeDoc, TRUE)
       /\ (outcome.status = "returned" /\ outcome.doc.type = "Document")
            => call.maybeDoc.type = "Document"

\* A remote transform with one server timestamp and one transform result
\* was applied to NoDocument(1) and returned it.
WitnessC6 ==
    /\ Called("applyToRemoteDocument", "Transform")
    /\ call.maybeDoc = NoDocument("k1", 1)
    /\ Len(call.mutation.fieldTransforms) = 1
    /\ call.mutation.fieldTransforms[1].transform = ServerTimestampTransform
    /\ \E r \in call.mutationResult.transformResults : Len(r) = 1
    /\ outcome = Returns(NoDocument("k1", 1), TRUE)

\* ------------------------------------------------------------------- C7
IsPrefix(p, q) == Len(p) <= Len(q) /\ SubSeq(q, 1, Len(p)) = p
\* Two field paths overlap when one is the other or leads to it.
Related(p, q) == IsPrefix(p, q) \/ IsPrefix(q, p)

\* data with each pair's field set to the pair's result, in list order.
RECURSIVE SetInOrder(_, _, _)
SetInOrder(data, fieldTransforms, results) ==
    IF fieldTransforms = <<>> THEN data
    ELSE SetInOrder(set(data, Head(fieldTransforms).field, Head(results)),
                    Tail(fieldTransforms), Tail(results))

\* The remote transform of a Document was given as many results as it has
\* transforms, all of them of the supported variant, and a matching key.
RemoteTransformOfDocument ==
    /\ Called("applyToRemoteDocument", "Transform")
    /\ KeyMatched
    /\ call.maybeDoc.type = "Document"
    /\ \E r \in call.mutationResult.transformResults :
          Len(r) = Len(call.mutation.fieldTransforms)
    /\ \A i \in DOMAIN call.mutation.fieldTransforms :
          call.mutation.fieldTransforms[i].transform = ServerTimestampTransform

\* C7: TransformMutation.applyToRemoteDocument on Document(v, data) with as
\* many transformResults as fieldTransforms (server timestamps, the variant
\* the code implements; matching key) returns Document(key, v, data',
\* hasLocalMutations=false): data' is data with the i-th field set to the
\* i-th result in list order, so the last transform of a field decides its
\* value, and a field no transform touches keeps its value.
TheoremC7 ==
    RemoteTransformOfDocument
    => LET fts == call.mutation.fieldTransforms
           results == CHOOSE r \in call.mutationResult.transformResults : TRUE
       IN /\ outcome.status = "returned"
          /\ outcome.doc.type = "Document"
          /\ outcome.doc.key = call.mutation.key
          /\ outcome.doc.version = call.maybeDoc.version
          /\ ~outcome.doc.hasLocalMutations
          /\ outcome.doc.data = SetInOrder(call.maybeDoc.data, fts, results)
          /\ \A i \in DOMAIN fts :
                (\A j \in DOMAIN fts :
                    j > i => ~Related(fts[j].field, fts[i].field))
                => field(outcome.doc.data, fts[i].field) = {results[i]}
          /\ \A path \in Paths :
                (\A i \in DOMAIN fts : ~Related(path, fts[i].field))
                => field(outcome.doc.data, path)
                     = field(call.maybeDoc.data, path)

\* Two transforms of field a with different results were applied to a
\* Document at version 1 that holds b: a got the second result, b was kept.
WitnessC7 ==
    /\ RemoteTransformOfDocument
    /\ call.maybeDoc.version = 1
    /\ Len(call.mutation.fieldTransforms) = 2
    /\ call.mutation.fieldTransforms[1].field = <<"a">>
    /\ call.mutation.fieldTransforms[2].field = <<"a">>
    /\ call.mutationResult.transformResults
         = {<<NumberValue(1), NumberValue(2)>>}
    /\ field(call.maybeDoc.data, <<"b">>) = {NumberValue(1)}
    /\ outcome.status = "returned"
    /\ outcome.doc.version = 1
    /\ field(outcome.doc.data, <<"a">>) = {NumberValue(2)}
    /\ field(outcome.doc.data, <<"b">>) = {NumberValue(1)}

\* ------------------------------------------------------------------- C8
\* C8: local application is idempotent: for every mutation, precondition
\* and prior state with a matching key, applyToLocalView applied (same
\* baseDoc and localWriteTime) to the document the first applyToLocalView
\* returned returns that same document; so does applyToRemoteDocument for a
\* PatchMutation.
TheoremC8 ==
    (/\ applications = 2
     /\ call.method = "applyToLocalView"
          \/ Called("applyToRemoteDocument", "Patch"))
    => /\ previous.status = "returned"
       /\ call.maybeDoc = previous.doc
       /\ outcome.status = "returned"
       /\ outcome.doc = previous.doc

\* A local transform was applied twice to a Document, with a baseDoc other
\* than the document and holding a previous value for the field.
WitnessC8 ==
    /\ applications = 2
    /\ Called("applyToLocalView", "Transform")
    /\ call.maybeDoc.type = "Document"
    /\ call.baseDoc.type = "Document"
    /\ call.baseDoc.data # call.maybeDoc.data
    /\ Len(call.mutation.fieldTransforms) = 1
    /\ call.mutation.fieldTransforms[1] =
         FieldTransform(<<"a">>, ServerTimestampTransform)
    /\ field(call.baseDoc.data, <<"a">>) = {NumberValue(2)}
    /\ outcome.status = "returned"
    /\ field(outcome.doc.data, <<"a">>)
         = {ServerTimestampValue(call.localWriteTime, {NumberValue(2)})}

\* ------------------------------------------------------------------- C9
\* A patch took effect: its precondition held for the document it was
\* given (matching key, well formed result).
PatchApplied ==
    /\ PatchCalled
    /\ KeyMatched
    /\ isValidFor(call.mutation.precondition, call.maybeDoc)

Mask == {call.mutation.fieldMask[i] : i \in DOMAIN call.mutation.fieldMask}
\* The object the patch starts from.
Base == IF call.maybeDoc.type = "Document" THEN call.maybeDoc.data ELSE EMPTY

\* A path the mask covers: it is in the mask or below a path in the mask.
Covered(path) == \E q \in Mask : IsPrefix(q, path)
\* A path above a path in the mask.
Above(path) == \E q \in Mask : IsPrefix(path, q) /\ path # q
IsLeaf(values) == \A v \in values : v.kind # "object"

\* C9 as claimed, reading "a path in the mask" in the claim's favour as a
\* path the mask covers: a path in the mask holds the mutation data's
\* value, or none when the data has none; a (non-object) field of the base
\* object at a path the mask does not cover keeps its base value; a
\* (non-object) value the mutation data has at a path the mask does not
\* cover does not reach the result.
OriginalC9 ==
    PatchApplied
    => /\ outcome.status = "returned"
       /\ outcome.doc.type = "Document"
       /\ \A path \in Mask :
             field(outcome.doc.data, path) = field(call.mutation.data, path)
       /\ \A path \in Paths :
             (~Covered(path) /\ field(Base, path) # {}
                /\ IsLeaf(field(Base, path)))
               => field(outcome.doc.data, path) = field(Base, path)
       /\ \A path \in Paths :
             (~Covered(path) /\ field(call.mutation.data, path) # {}
                /\ IsLeaf(field(call.mutation.data, path))
                /\ field(outcome.doc.data, path)
                     = field(call.mutation.data, path))
               => field(Base, path) = field(call.mutation.data, path)

\* C9 as amended: a path in the mask, and every path below one, holds the
\* mutation data's value, or none when the data has none; a path that is
\* neither in the mask, nor below, nor above a path in the mask has in the
\* result what the base object has there, whatever the mutation data holds
\* at it; a base value that is not an object and lies above a masked path
\* is replaced by an object when the mutation data has a value at a masked
\* path below it, and is kept otherwise. The base object is the prior
\* Document's data, or EMPTY when the prior state is not a Document.
TheoremC9 ==
    PatchApplied
    => /\ outcome.status = "returned"
       /\ outcome.doc.type = "Document"
       /\ \A path \in Paths :
             Covered(path)
               => field(outcome.doc.data, path)
                    = field(call.mutation.data, path)
       /\ \A path \in Paths :
             (\A q \in Mask : ~Related(path, q))
               => field(outcome.doc.data, path) = field(Base, path)
       /\ \A path \in Paths :
             (Above(path) /\ ~Covered(path) /\ field(Base, path) # {}
                /\ IsLeaf(field(Base, path)))
               => IF \E q \in Mask : /\ IsPrefix(path, q)
                                     /\ field(call.mutation.data, q) # {}
                  THEN /\ field(outcome.doc.data, path) # {}
                       /\ ~IsLeaf(field(outcome.doc.data, path))
                  ELSE field(outcome.doc.data, path) = field(Base, path)

\* The spec's example: base {a: 1, b: 2} patched with mask [a] and data
\* without a value at a, but with one at b, gave {b: 2}.
WitnessC9 ==
    /\ PatchApplied
    /\ call.maybeDoc.type = "Document"
    /\ call.maybeDoc.data =
         ObjectValue([n \in {"a", "b"} |->
                        IF n = "a" THEN NumberValue(1) ELSE NumberValue(2)])
    /\ call.mutation.fieldMask = <<(<<"a">>)>>
    /\ field(call.mutation.data, <<"a">>) = {}
    /\ field(call.mutation.data, <<"b">>) = {NumberValue(1)}
    /\ outcome.status = "returned"
    /\ outcome.doc.data = ObjectValue([n \in {"b"} |-> NumberValue(2)])

\* ------------------------------------------------------------------ C10
KeyMismatch ==
    "Can only apply a mutation to a document with the same key"

\* C10: for every mutation and both methods, a document that is not absent
\* and whose key differs from the mutation's makes the call throw, with no
\* document returned and before the precondition is evaluated; an absent
\* document never fails this check.
TheoremC10 ==
    call.method \in {"applyToLocalView", "applyToRemoteDocument"}
    => /\ (call.maybeDoc # Null /\ call.maybeDoc.key # call.mutation.key)
            => /\ outcome = Throws(KeyMismatch, FALSE)
               /\ maybeDoc = call.maybeDoc
       /\ call.maybeDoc = Null
            => ~(outcome.status = "fatal" /\ outcome.error = KeyMismatch)

\* A local set whose precondition holds for the Document it was given
\* threw because the Document has another key.
WitnessC10 ==
    /\ Called("applyToLocalView", "Set")
    /\ call.maybeDoc.type = "Document"
    /\ call.maybeDoc.key = "k2"
    /\ call.mutation.key = "k1"
    /\ isValidFor(call.mutation.precondition, call.maybeDoc)
    /\ outcome.status = "fatal"
    /\ ~outcome.checkedPrecondition

\* ------------------------------------------------------------------ C11
\* The message of the assert on MutationResult.transformResults in the
\* applyToRemoteDocument of each mutation class.
TransformResultsError(type) ==
    IF type = "Transform"
    THEN "Transform results missing for TransformMutation."
    ELSE "Transform results received by " \o type \o "Mutation."

\* The result of the last (remote) call breaks the rule that
\* transformResults is present exactly for a TransformMutation.
MalformedResult ==
    /\ call.method = "applyToRemoteDocument"
    /\ (call.mutation.type = "Transform")
         = (call.mutationResult.transformResults = {})

\* C11: applyToRemoteDocument of a Set, Patch or Delete mutation throws when
\* the result carries transformResults, and applyToRemoteDocument of a
\* Transform mutation throws when the result carries none: for every prior
\* state and every precondition no document is returned, the precondition
\* was not evaluated, and (the key check passed) the error is the one of the
\* transformResults assert.
TheoremC11 ==
    MalformedResult
    => /\ outcome.status = "fatal"
       /\ ~outcome.checkedPrecondition
       /\ maybeDoc = call.maybeDoc
       /\ KeyMatched
            => outcome.error = TransformResultsError(call.mutation.type)

\* A remote transform without transformResults threw on NoDocument(1), for
\* which its precondition Exists(true) does not hold.
WitnessC11 ==
    /\ Called("applyToRemoteDocument", "Transform")
    /\ call.mutationResult.transformResults = {}
    /\ call.maybeDoc = NoDocument("k1", 1)
    /\ ~isValidFor(call.mutation.precondition, call.maybeDoc)
    /\ outcome = Throws("Transform results missing for TransformMutation.",
                        FALSE)

\* ------------------------------------------------------------------ C12
\* The remote transform was given transformResults whose number differs
\* from the number of fieldTransforms.
LengthMismatch ==
    /\ Called("applyToRemoteDocument", "Transform")
    /\ \E r \in call.mutationResult.transformResults :
          Len(r) # Len(call.mutation.fieldTransforms)

\* C12: TransformMutation.applyToRemoteDocument throws whenever the number
\* of transformResults differs from the number of fieldTransforms, for every
\* prior state of the document (Document, NoDocument, absent), whether or
\* not the precondition Exists(true) holds.
OriginalC12 ==
    LengthMismatch => outcome.status = "fatal"

\* ------------------------------------------------------------------ C13
\* The variant of a precondition.
Variant(p) ==
    IF p.updateTime # {} THEN "UpdateTime"
    ELSE IF p.exists = {TRUE} THEN "Exists(true)"
    ELSE IF p.exists = {FALSE} THEN "Exists(false)"
    ELSE "None"

\* The reference truth table, by precondition variant and kind of prior
\* state; sameVersion: the prior state's version is the update time.
ReferenceTable(variant, type, sameVersion) ==
    CASE variant = "None" -> TRUE
      [] variant = "Exists(true)" -> type = "Document"
      [] variant = "Exists(false)" -> type \in {"null", "NoDocument"}
      [] variant = "UpdateTime" -> type = "Document" /\ sameVersion

\* The prior state of the last call has the version the mutation's
\* precondition names as update time.
SameVersion ==
    /\ call.maybeDoc # Null
    /\ call.maybeDoc.version \in call.mutation.precondition.updateTime

\* C13: for the precondition and the prior state (Document(v),
\* NoDocument(v) or absent) of every call, Precondition.isValidFor equals
\* the reference truth table: UpdateTime(u) holds exactly for a Document at
\* version u (never for a NoDocument at version u), Exists(true) exactly for
\* a Document, Exists(false) exactly for an absent document or a
\* NoDocument, None always.
TheoremC13 ==
    call.method \in {"applyToLocalView", "applyToRemoteDocument"}
    => isValidFor(call.mutation.precondition, call.maybeDoc)
         = ReferenceTable(Variant(call.mutation.precondition),
                          call.maybeDoc.type, SameVersion)

\* A local patch with precondition UpdateTime(1) evaluated the precondition
\* on NoDocument(1), found it invalid and returned the NoDocument.
WitnessC13 ==
    /\ Called("applyToLocalView", "Patch")
    /\ call.mutation.precondition = updateTime(1)
    /\ call.maybeDoc = NoDocument("k1", 1)
    /\ outcome = Returns(NoDocument("k1", 1), TRUE)
    /\ ~isValidFor(call.mutation.precondition, call.maybeDoc)

\* ------------------------------------------------------------------ C14
\* The precondition specifies an exists flag / an update time.
SpecifiesExists(p) == p.exists # {}
SpecifiesUpdateTime(p) == p.updateTime # {}

\* C14: no precondition built by NONE, Precondition.exists(flag) or
\* Precondition.updateTime(version) carries both an exists flag and an
\* update time; two preconditions of which one specifies exists and the
\* other updateTime are not equal under isEqual, in either direction; and
\* isNone holds only for the precondition with neither, which is NONE.
TheoremC14 ==
    /\ \A p \in {left.precondition, right.precondition} :
          /\ ~(SpecifiesExists(p) /\ SpecifiesUpdateTime(p))
          /\ isNone(p) <=> (~SpecifiesExists(p) /\ ~SpecifiesUpdateTime(p))
          /\ isNone(p) <=> p = NONE
    /\ (/\ equal.of = "Precondition"
        /\ \/ /\ SpecifiesExists(left.precondition)
              /\ SpecifiesUpdateTime(right.precondition)
           \/ /\ SpecifiesUpdateTime(left.precondition)
              /\ SpecifiesExists(right.precondition))
         => ~equal.result /\ ~equal.reversed

\* Exists(true) was compared with UpdateTime(1) and found different.
WitnessC14 ==
    /\ equal.of = "Precondition"
    /\ left.precondition = exists(TRUE)
    /\ right.precondition = updateTime(1)
    /\ ~equal.result
    /\ ~equal.reversed

\* ------------------------------------------------------------------ C15
\* C15: Mutation.isEqual is structural over all fields: it returns true
\* exactly when both mutations are of the same variant and have equal keys,
\* equal preconditions and equal variant-specific fields (value for Set;
\* data and fieldMask for Patch; fieldTransforms in order for Transform), so
\* that two PatchMutations that differ only in their data are not equal;
\* and the relation is reflexive and symmetric.
OriginalC15 ==
    equal.of = "Mutation"
    => /\ equal.result = (left = right)
       /\ equal.reversed = equal.result
       /\ left = right => equal.result

\* ------------------------------------------------------------------ C16
\* The last call is one that checks the precondition: applyToLocalView of
\* any mutation, or applyToRemoteDocument of a Patch (result without
\* transformResults) or of a Transform (result with transformResults).
ChecksPrecondition ==
    \/ call.method = "applyToLocalView"
    \/ /\ Called("applyToRemoteDocument", "Patch")
       /\ call.mutationResult.transformResults = {}
    \/ /\ Called("applyToRemoteDocument", "Transform")
       /\ call.mutationResult.transformResults # {}

\* C16: with a matching key, a call that checks the precondition and finds
\* it invalid for its input returns exactly the input (the same variant,
\* version, data and hasLocalMutations flag, or absent) and throws nothing.
TheoremC16 ==
    (/\ ChecksPrecondition
     /\ KeyMatched
     /\ ~isValidFor(call.mutation.precondition, call.maybeDoc))
    => /\ outcome = Returns(call.maybeDoc, TRUE)
       /\ maybeDoc = call.maybeDoc

\* A local delete with precondition UpdateTime(1) returned the Document at
\* version 0, with its data and its local-mutations flag, untouched.
WitnessC16 ==
    /\ Called("applyToLocalView", "Delete")
    /\ call.mutation.precondition = updateTime(1)
    /\ call.maybeDoc.type = "Document"
    /\ call.maybeDoc.version = 0
    /\ call.maybeDoc.hasLocalMutations
    /\ call.maybeDoc.data # EMPTY
    /\ outcome.status = "returned"
    /\ outcome.doc = call.maybeDoc

\* ------------------------------------------------------------------ C17
\* A local transform made of server timestamps was applied to a Document
\* with the mutation's key.
LocalTransformOfDocument ==
    /\ Called("applyToLocalView", "Transform")
    /\ KeyMatched
    /\ call.maybeDoc.type = "Document"
    /\ \A i \in DOMAIN call.mutation.fieldTransforms :
          call.mutation.fieldTransforms[i].transform = ServerTimestampTransform

\* The value a field has in baseDoc: none when baseDoc is not a Document or
\* holds nothing there.
PreviousValue(path) ==
    IF call.baseDoc.type = "Document"
    THEN field(call.baseDoc.data, path)
    ELSE {}

\* The placeholder of the i-th transform.
Placeholder(i) ==
    ServerTimestampValue(call.localWriteTime,
                         PreviousValue(call.mutation.fieldTransforms[i].field))

\* C17: TransformMutation.applyToLocalView on a Document sets the field of
\* each ServerTimestampTransform, in list order, to a placeholder carrying
\* localWriteTime and the previous value of that field in baseDoc (none when
\* baseDoc is not a Document or has no value there), not the value in the
\* document being mutated; the result keeps the document's key and version
\* and has hasLocalMutations=true.
TheoremC17 ==
    LocalTransformOfDocument
    => LET fts == call.mutation.fieldTransforms
           placeholders == [i \in DOMAIN fts |-> Placeholder(i)]
       IN /\ outcome.status = "returned"
          /\ outcome.doc.type = "Document"
          /\ outcome.doc.key = call.mutation.key
          /\ outcome.doc.version = call.maybeDoc.version
          /\ outcome.doc.hasLocalMutations
          /\ outcome.doc.data
               = SetInOrder(call.maybeDoc.data, fts, placeholders)
          /\ \A i \in DOMAIN fts :
                (\A j \in DOMAIN fts :
                    j > i => ~Related(fts[j].field, fts[i].field))
                => field(outcome.doc.data, fts[i].field) = {placeholders[i]}

\* A Document at version 1 holding a = 1 was transformed at a with a baseDoc
\* holding a = 2, and at b where baseDoc holds nothing: a's placeholder
\* carries 2, b's carries no previous value.
WitnessC17 ==
    /\ LocalTransformOfDocument
    /\ applications = 1
    /\ call.maybeDoc.version = 1
    /\ ~call.maybeDoc.hasLocalMutations
    /\ field(call.maybeDoc.data, <<"a">>) = {NumberValue(1)}
    /\ call.baseDoc.type = "Document"
    /\ field(call.baseDoc.data, <<"a">>) = {NumberValue(2)}
    /\ field(call.baseDoc.data, <<"b">>) = {}
    /\ Len(call.mutation.fieldTransforms) = 2
    /\ call.mutation.fieldTransforms[1].field = <<"a">>
    /\ call.mutation.fieldTransforms[2].field = <<"b">>
    /\ outcome.status = "returned"
    /\ outcome.doc.version = 1
    /\ outcome.doc.hasLocalMutations
    /\ field(outcome.doc.data, <<"a">>)
         = {ServerTimestampValue(call.localWriteTime, {NumberValue(2)})}
    /\ field(outcome.doc.data, <<"b">>)
         = {ServerTimestampValue(call.localWriteTime, {})}

\* ------------------------------------------------------------------ C18
\* The last call creates a document (a Document or a NoDocument) from an
\* absent one: the remote Set and Delete always do, the calls that check
\* the precondition do when it holds for the absent document.
CreatesFromAbsent ==
    \/ Called("applyToRemoteDocument", "Set")
    \/ Called("applyToRemoteDocument", "Delete")
    \/ isValidFor(call.mutation.precondition, Null)

\* C18: for every mutation kind and both apply methods, the returned
\* document is absent only if the input document was absent and the
\* mutation does not create a document (and then it is absent); an input
\* that is a Document or a NoDocument never yields an absent result.
TheoremC18 ==
    (/\ call.method \in {"applyToLocalView", "applyToRemoteDocument"}
     /\ outcome.status = "returned")
    => /\ outcome.doc = Null => (call.maybeDoc = Null /\ ~CreatesFromAbsent)
       /\ (call.maybeDoc = Null /\ ~CreatesFromAbsent) => outcome.doc = Null
       /\ call.maybeDoc # Null => outcome.doc # Null
       /\ maybeDoc = outcome.doc

\* A local set whose precondition UpdateTime(1) cannot hold for an absent
\* document returned no document.
WitnessC18 ==
    /\ Called("applyToLocalView", "Set")
    /\ call.mutation.precondition = updateTime(1)
    /\ call.maybeDoc = Null
    /\ outcome = Returns(Null, TRUE)

\* ------------------------------------------------------------------ C19
\* The last call applied a TransformMutation that contains a transform of
\* a variant other than ServerTimestampTransform.
UnsupportedTransform ==
    /\ TransformCalled
    /\ \E i \in DOMAIN call.mutation.fieldTransforms :
          call.mutation.fieldTransforms[i].transform # ServerTimestampTransform

\* The call reaches the loop over the transforms: the key matches and, on
\* the remote path, there is one transform result per transform.
ReachesTransforms ==
    /\ KeyMatched
    /\ call.method = "applyToRemoteDocument"
         => \E r \in call.mutationResult.transformResults :
               Len(r) = Len(call.mutation.fieldTransforms)

\* C19: applying a TransformMutation that contains a transform of any
\* variant other than ServerTimestampTransform to a Document throws, on the
\* local and on the remote path, wherever the unsupported transform is in
\* the list, and with the unknown-transform error when the call is
\* otherwise in order; such a mutation never returns a transformed
\* document: what it returns, if anything, is its input, which is then a
\* NoDocument or absent (the precondition Exists(true) does not hold).
TheoremC19 ==
    UnsupportedTransform
    => /\ call.maybeDoc.type = "Document"
            => /\ outcome.status = "fatal"
               /\ maybeDoc = call.maybeDoc
               /\ ReachesTransforms
                    => outcome.error = "Encountered unknown transform"
       /\ outcome.status = "returned"
            => /\ outcome.doc = call.maybeDoc
               /\ call.maybeDoc.type # "Document"

\* A remote transform whose second transform is unsupported, given two
\* transform results and a Document, threw: the first field was not set.
WitnessC19 ==
    /\ Called("applyToRemoteDocument", "Transform")
    /\ call.maybeDoc.type = "Document"
    /\ KeyMatched
    /\ Len(call.mutation.fieldTransforms) = 2
    /\ call.mutation.fieldTransforms[1]
         = FieldTransform(<<"a">>, ServerTimestampTransform)
    /\ call.mutation.fieldTransforms[2]
         = FieldTransform(<<"b">>, UnknownTransform)
    /\ \E r \in call.mutationResult.transformResults : Len(r) = 2
    /\ outcome.status = "fatal"
    /\ outcome.error = "Encountered unknown transform"
    /\ maybeDoc = call.maybeDoc

\* ------------------------------------------------------------------ C20
\* The event e was made, and made before the event f.
Before(e, f) ==
    \E i, j \in DOMAIN events : i < j /\ events[i] = e /\ events[j] = f

\* C20: when deleteTokenInternal (running alone) resolves, the token
\* database holds no token details; if token details were stored, a delete
\* request for the stored token was sent to the backend before the entry
\* was removed from the database; the push subscription, if there was one,
\* was unsubscribed; and with no push subscription the call resolves to
\* true.
TheoremC20 ==
    settled.status = "resolved"
    => /\ tokenDb = {}
       /\ \A d \in tokenDetails : Before(RequestDeleteToken(d.token), DbRemove)
       /\ tokenDetails = {} => events \in {<<>>} \cup
                                   {<<Unsubscribe(p)>> : p \in PushSubscriptions}
       /\ \A p \in pushSubscription :
             /\ events[Len(events)] = Unsubscribe(p)
             /\ subscription = {}
       /\ pushSubscription = {}
            => /\ settled.value = TRUE
               /\ subscription = {}

\* The call resolved after deleting the stored token t2 and unsubscribing
\* the subscription s1.
WitnessC20 ==
    /\ settled.status = "resolved"
    /\ \E d \in tokenDetails : d.token = "t2"
    /\ pushSubscription = {"s1"}
    /\ events = <<RequestDeleteToken("t2"), DbRemove, Unsubscribe("s1")>>
    /\ tokenDb = {}

\* ------------------------------------------------------------------ C21
\* C21: getPersistentCacheIndexManager returns the same instance on every
\* call for the same Firestore once one has been created: at most one
\* instance is ever returned per Firestore, it is the one in the map, and
\* it belongs to no other Firestore; the call returns null exactly when no
\* instance was cached and the client's offline kind is not 'persistent',
\* and then nothing is cached.
TheoremC21 ==
    /\ \A f \in Firestores :
          /\ Cardinality(returned[f]) <= 1
          /\ returned[f] = persistentCacheIndexManagerByFirestore[f]
          /\ \A g \in Firestores : f # g => returned[f] \cap returned[g] = {}
    /\ lastCall # NoCall
         => /\ lastCall.result = {}
                <=> (/\ lastCall.cachedInstance = {}
                     /\ offlineKind[lastCall.firestore] # {"persistent"})
            /\ lastCall.result = {}
                => persistentCacheIndexManagerByFirestore[lastCall.firestore]
                     = {}
            /\ lastCall.cachedInstance # {}
                => lastCall.result = lastCall.cachedInstance

\* A second call for f1 returned the instance the first one created,
\* after f2 (persistent, too) got an instance of its own and f3 got null.
WitnessC21 ==
    /\ lastCall # NoCall
    /\ lastCall.firestore = "f1"
    /\ lastCall.cachedInstance # {}
    /\ lastCall.result = lastCall.cachedInstance
    /\ returned["f2"] # {}
    /\ returned["f3"] = {}
    /\ offlineKind["f3"] = {"memory"}

\* ------------------------------------------------------------------ C22
\* C22: across any sequence of applications to one key (local or remote,
\* any kinds and preconditions), every Document state reached has the
\* version of the starting Document if the key was a Document all along (no
\* Delete has taken effect), and version MIN otherwise (it was created from
\* a NoDocument or an absent state); no application returns a Document
\* with another version.
TheoremC22 ==
    /\ maybeDoc.type = "Document"
         => maybeDoc.version = IF intact THEN start.version ELSE MIN
    /\ (applications > 0 /\ outcome.status = "returned"
          /\ outcome.doc.type = "Document")
         => /\ outcome.doc.version = ExpectedVersion(call.maybeDoc)
            /\ outcome.doc.version
                 \in {MIN} \cup (IF start.type = "Document"
                               THEN {start.version} ELSE {})
    /\ intact => start.type = "Document"

\* A Document at version 1 was deleted, set again and patched: it is a
\* Document at version MIN.
WitnessC22 ==
    /\ applications = 3
    /\ start.type = "Document"
    /\ start.version = 1
    /\ ~intact
    /\ before.mutation.type = "Set"
    /\ before.maybeDoc.type = "NoDocument"
    /\ call.mutation.type = "Patch"
    /\ call.mutation.fieldMask # <<>>
    /\ maybeDoc.type = "Document"
    /\ maybeDoc.version = MIN

\* ------------------------------------------------------------------ C23
\* The last two applications were local: a mutation of variant `type` and
\* then a TransformMutation.
TransformAfter(type) ==
    /\ applications >= 2
    /\ before.method = "applyToLocalView"
    /\ before.mutation.type = type
    /\ Called("applyToLocalView", "Transform")

\* The state is a Document holding the placeholder at the transformed
\* field, with hasLocalMutations set.
CarriesTransformedFields ==
    /\ maybeDoc.type = "Document"
    /\ maybeDoc.hasLocalMutations
    /\ \A i \in DOMAIN call.mutation.fieldTransforms :
          field(maybeDoc.data, call.mutation.fieldTransforms[i].field)
            = {Placeholder(i)}

\* C23: in a batch applied locally in order to one key, a TransformMutation
\* that follows a Set or a Patch takes effect iff the state the preceding
\* mutation left is a Document: after [Set with precondition None,
\* Transform] the state is a Document carrying the transformed fields (and
\* elsewhere the value set); after [Patch with precondition Exists(true),
\* Transform] applied to a NoDocument or an absent state the final state is
\* the initial state.
TheoremC23 ==
    /\ (TransformAfter("Set") \/ TransformAfter("Patch"))
         => /\ call.maybeDoc.type = "Document" => CarriesTransformedFields
            /\ call.maybeDoc.type # "Document" => maybeDoc = call.maybeDoc
    /\ (TransformAfter("Set") /\ before.mutation.precondition = NONE)
         => /\ CarriesTransformedFields
            /\ \A path \in Paths :
                  (\A i \in DOMAIN call.mutation.fieldTransforms :
                      ~Related(path, call.mutation.fieldTransforms[i].field))
                  => field(maybeDoc.data, path)
                       = field(before.mutation.value, path)
    /\ (/\ TransformAfter("Patch")
        /\ before.mutation.precondition = exists(TRUE)
        /\ before.maybeDoc.type # "Document")
         => /\ maybeDoc = before.maybeDoc
            /\ call.maybeDoc = before.maybeDoc

\* [Patch with Exists(true), Transform] left NoDocument(1) as it was.
WitnessC23 ==
    /\ applications = 2
    /\ TransformAfter("Patch")
    /\ before.mutation.precondition = exists(TRUE)
    /\ before.mutation.fieldMask # <<>>
    /\ before.maybeDoc = NoDocument("k1", 1)
    /\ start = NoDocument("k1", 1)
    /\ maybeDoc = NoDocument("k1", 1)

\* ------------------------------------------------------------------ C26
\* The last call was of a SetMutation or a PatchMutation with a matching key
\* on a prior state its precondition is valid for.
SetOrPatchOfValid ==
    /\ call.method # "none"
    /\ call.mutation.type \in {"Set", "Patch"}
    /\ KeyMatched
    /\ isValidFor(call.mutation.precondition, call.maybeDoc)

\* What the other path returns for the mutation and prior state of the last
\* call: the remote results for a local call (one for each MutationResult
\* without transformResults), the local result for a remote call.
OtherPath ==
    IF call.method = "applyToLocalView"
    THEN {applyToRemoteDocument(call.mutation, call.maybeDoc, r) :
            r \in {x \in MutationResults(call.mutation) :
                     x.transformResults = {}}}
    ELSE {applyToLocalView(call.mutation, call.maybeDoc, call.maybeDoc, 1)}

\* The Document of the local path and the Document of the remote path.
SameButLocalMutations(local, remote) ==
    /\ local.type = "Document"
    /\ remote.type = "Document"
    /\ local.key = call.mutation.key
    /\ remote.key = local.key
    /\ remote.version = local.version
    /\ remote.data = local.data
    /\ local.hasLocalMutations
    /\ ~remote.hasLocalMutations

\* C26: for a SetMutation or PatchMutation and a prior state its
\* precondition is valid for, applyToLocalView and applyToRemoteDocument
\* (given a result without transformResults) return Documents with the same
\* key, version and data, hasLocalMutations being true on the local path and
\* false on the remote path; a state a local application of any mutation
\* newly produces is a Document with hasLocalMutations=true or a NoDocument.
TheoremC26 ==
    /\ (/\ SetOrPatchOfValid
        /\ call.method = "applyToRemoteDocument"
             => call.mutationResult.transformResults = {})
         => /\ outcome.status = "returned"
            /\ OtherPath # {}
            /\ \A other \in OtherPath :
                  /\ other.status = "returned"
                  /\ IF call.method = "applyToLocalView"
                     THEN SameButLocalMutations(outcome.doc, other.doc)
                     ELSE SameButLocalMutations(other.doc, outcome.doc)
    /\ (/\ call.method = "applyToLocalView"
        /\ outcome.status = "returned"
        /\ outcome.doc # call.maybeDoc)
         => \/ /\ outcome.doc.type = "Document"
               /\ outcome.doc.hasLocalMutations
            \/ outcome.doc.type = "NoDocument"

\* A local patch with precondition Exists(true) of a Document at version 1
\* that had no local mutations.
WitnessC26 ==
    /\ SetOrPatchOfValid
    /\ Called("applyToLocalView", "Patch")
    /\ call.mutation.precondition = exists(TRUE)
    /\ call.mutation.fieldMask # <<>>
    /\ call.maybeDoc.type = "Document"
    /\ call.maybeDoc.version = 1
    /\ ~call.maybeDoc.hasLocalMutations
    /\ outcome.status = "returned"
    /\ outcome.doc.version = 1
    /\ outcome.doc.hasLocalMutations
    /\ outcome.doc.data # call.maybeDoc.data

\* ------------------------------------------------------------------ C24
\* C24: when the update request or the database write after it failed
\* during the weekly refresh, the call rejects with that error and, once it
\* has rejected, the token database holds no token details, also when the
\* clean-up's own delete request fails.
OriginalC24 ==
    \A p \in DOMAIN frames :
       (frames[p].pc = "done" /\ frames[p].error # {})
         => /\ \E e \in frames[p].error : frames[p].settled = Rejected(e)
            /\ tokenDb = {}

\* ------------------------------------------------------------------ C25
\* The call of frame p found stored token details whose options differ from
\* the current ones in vapidKey, endpoint, auth or p256dh.
FoundInvalid(p) ==
    /\ frames[p].pc \in {"requestDeleteToken", "requestGetToken", "dbSet",
                          "done"}
    /\ \E d \in frames[p].tokenDetails, o \in frames[p].subscriptionOptions :
          ~isTokenValid(d.subscriptionOptions, o)

\* C25: a call that finds stored token details with other subscription
\* options (vapidKey, endpoint, auth, p256dh) sends a delete request for the
\* stored token, then requests a new token and stores it; a failure of the
\* delete request is suppressed: the call goes on, never rejects with that
\* failure, and when the request for the new token and the database write
\* succeed it resolves with the new token, which the database then holds
\* with the current options.
TheoremC25 ==
    \A p \in DOMAIN frames :
       FoundInvalid(p)
         => \E d \in frames[p].tokenDetails,
               o \in frames[p].subscriptionOptions :
              /\ frames[p].pc # "requestDeleteToken"
                   => /\ events # <<>>
                      /\ events[1] = RequestDeleteToken(d.token)
              /\ frames[p].pc = "requestDeleteToken" => events = <<>>
              /\ frames[p].token # {}
                   => Before(RequestDeleteToken(d.token), RequestGetToken(o))
              /\ frames[p].pc = "dbSet" => frames[p].token # {}
              /\ frames[p].pc = "done"
                   => \/ frames[p].settled \in {Rejected("requestGetToken"),
                                                 Rejected("dbSet")}
                      \/ /\ frames[p].token # {}
                         /\ \E t \in frames[p].token :
                               /\ frames[p].settled = Resolved(t)
                               /\ \E c \in Nows :
                                     tokenDb = {TokenDetails(t, c, o)}

\* The stored token t1 had another auth key; its delete request failed, the
\* call resolved with t2 and the database holds t2.
WitnessC25 ==
    /\ DOMAIN frames = {1}
    /\ FoundInvalid(1)
    /\ frames[1].pc = "done"
    /\ frames[1].settled = Resolved("t2")
    /\ \E d \in frames[1].tokenDetails, o \in frames[1].subscriptionOptions :
          /\ d.token = "t1"
          /\ d.subscriptionOptions.auth # o.auth
          /\ d.subscriptionOptions.vapidKey = o.vapidKey
          /\ d.subscriptionOptions.endpoint = o.endpoint
          /\ d.subscriptionOptions.p256dh = o.p256dh
    /\ events = <<RequestDeleteToken("t1"), Warn("requestDeleteToken"),
                  RequestGetToken(CurrentOptions("s1"))>>
    /\ \E d \in tokenDb : d.token = "t2"

\* ------------------------------------------------------------------ C27
\* C27: every token a getTokenInternal call resolves with is the token in
\* the token database once all calls in flight have finished; with two
\* concurrent calls starting from an empty database, under any
\* interleaving, both resolve with the token finally stored.
OriginalC27 ==
    (\A p \in DOMAIN frames : frames[p].pc = "done")
      => \A p \in DOMAIN frames :
            frames[p].settled.status = "resolved"
              => \E d \in tokenDb : d.token = frames[p].settled.value

====
